---------------------------- MODULE Spec2Model ----------------------------
(***************************************************************************)
(* PriceMaps: the batch scripts that turn the Zillow ZIP-level table into  *)
(* year-over-year maps (create_yoy_map.py, create_sophisticated_map.py),   *)
(* and the script of the generated page (dynamic quintiles, viewport and   *)
(* drawn-boundary selection).                                              *)
(*                                                                         *)
(* The update check (check_for_updates.py) and the search box of the page  *)
(* are modelled as well.                                                   *)
(*                                                                         *)
(* The specifications of the module:                                       *)
(*   SpecBatch     a run of a map script over every short list of date     *)
(*                 columns (the comparison-period resolver);               *)
(*   SpecChange    the same run over every small table of prices (percent  *)
(*                 change, dropna, outlier filter);                        *)
(*   SpecQuint     calculateQuintiles applied to every short array;        *)
(*   SpecPoly      isPointInPolygon applied to every small ring;           *)
(*   Spec          the event handlers of the generated page;               *)
(*   SpecDebounce  the same handlers with the debounce timer's scheduling; *)
(*   SpecLevels    create_price_levels_map over every small table;         *)
(*   SpecExit      a whole run of create_yoy_map.py or                     *)
(*                 create_price_levels.py, files present or missing, up to *)
(*                 the exit status;                                        *)
(*   SpecCheck     runs of check_for_updates.py, one after another;        *)
(*   SpecSearch    the handlers of the search box.                         *)
(***************************************************************************)
EXTENDS Integers, Sequences, FiniteSets, TLC

VARIABLES
    \* ---- the batch scripts ----
    script,          \* which script runs
    date_columns,    \* the CSV header's columns that contain '-', in file order
    table,           \* table[r][i]: the cell of region r under date_columns[i]
    pc,              \* position of the run
    latest_date,     \* date_columns[-1]
    year_ago_date,   \* the resolved comparison column, or None
    df_yoy,          \* the result set (df_yoy, df_analysis), NoFrame before it is built
    ret,             \* how the run ended
    zillow_file,     \* data/ZillowZip.csv exists
    shapefile,       \* the ZCTA shapefile exists
    output_file,     \* what the run wrote to output/: "none", "map" or "table"
    exit_code,       \* the exit status of the process, -1 while it runs
    \* ---- calculateQuintiles, called on its own ----
    values,          \* the caller's array
    quintiles,       \* what the call returned, <<>> before the call
    \* ---- the script of the generated page ----
    isLocalMode, currentQuintiles, currentMinPop, currentMaxPop,
    drawnBoundary,   \* the active boundary layer, or NoShape for null
    drawnItems,      \* the layers of the L.FeatureGroup
    isDrawingMode,
    updateTimeout,   \* how many callbacks set at line 1041 are pending
    bounds,          \* map.getBounds()
    legend,          \* the arguments of the last updateLegend call
    recomputed,      \* history: the handler that last wrote the breakpoints,
                     \* and the selection (visibleZips, boundaryZips) it used
    lastEvent,       \* history: the event whose handler ran last
    \* ---- isPointInPolygon, called on its own ----
    testPolygon,     \* the layer whose ring is tested
    testPoint,       \* the L.latLng tested
    returned,        \* what the evaluations so far returned, in order
    \* ---- check_for_updates.py, run after run ----
    upstream,        \* what the last run's request to Zillow met
    metadata,        \* data/last_update.json
    stdout,          \* the NEW_DATA lines the last run printed
    check_exit,      \* the exit code of the last run, -1 before the first
    runs,            \* how many runs have ended
    \* ---- the search box of the generated page ----
    searchBox,       \* the text in the box
    currentSuggestions,
    selectedSuggestionIndex,
    suggestionsActive,  \* the suggestions list is shown
    suggestionItems, \* the entries the list was last rendered with
    searchOutcome    \* history: where the last search handler went

runFiles == <<zillow_file, shapefile, output_file, exit_code>>
batchVars == <<script, date_columns, table, pc, latest_date, year_ago_date, df_yoy, ret,
               runFiles>>
quintVars == <<values, quintiles>>
pageVars == <<isLocalMode, currentQuintiles, currentMinPop, currentMaxPop,
              drawnBoundary, drawnItems, isDrawingMode, updateTimeout, bounds,
              legend, recomputed, lastEvent>>
polyVars == <<testPolygon, testPoint, returned>>
checkVars == <<upstream, metadata, stdout, check_exit, runs>>
searchVars == <<searchBox, currentSuggestions, selectedSuggestionIndex,
                suggestionsActive, suggestionItems, searchOutcome>>
vars == <<batchVars, quintVars, pageVars, polyVars, checkVars, searchVars>>

\* isPointInPolygon is not being called on its own.
PolyIdle == testPolygon = <<>> /\ testPoint = <<>> /\ returned = <<>>

\* Lines 458-459: no key has been pressed in the search box.
SearchIdle ==
    /\ searchBox = <<>> /\ currentSuggestions = <<>>
    /\ selectedSuggestionIndex = -1 /\ suggestionsActive = FALSE
    /\ suggestionItems = <<>>
    /\ searchOutcome = [did |-> "none", zip |-> <<>>]   \* no handler has run

\* The page is not loaded (the batch scripts and calculateQuintiles run
\* without it).
PageIdle ==
    /\ isLocalMode = FALSE /\ currentQuintiles = <<>> /\ currentMinPop = <<>>
    /\ currentMaxPop = <<>> /\ drawnBoundary = <<>> /\ drawnItems = {}
    /\ isDrawingMode = FALSE /\ updateTimeout = 0 /\ bounds = <<>>
    /\ legend = <<>> /\ recomputed = <<>> /\ lastEvent = "none"

\* Python's None where a column name is expected: no header holds this name.
None == [year |-> 0, month |-> 0, day |-> 0]

\* A cell of the table: a price, or NaN for an empty field of the CSV.
Cell(v) == [na |-> FALSE, v |-> v]
NaN == [na |-> TRUE, v |-> 0]

\* df_yoy before the run reaches line 83.
NoFrame == [computed |-> FALSE, rows |-> <<>>]
Frame(rows) == [computed |-> TRUE, rows |-> rows]

\* No request has been made; data/last_update.json does not exist.
NoResponse == [kind |-> "none", last |-> None]
NoMetadata == [exists |-> FALSE, last_date |-> None, checked_at |-> 0]

\* check_for_updates.py has not run.
CheckIdle ==
    /\ upstream = NoResponse /\ metadata = NoMetadata /\ stdout = <<>>
    /\ check_exit = -1 /\ runs = 0

(***************************************************************************)
(* Bounds of the model.                                                    *)
(***************************************************************************)
MaxCols == 3        \* date columns in the header
MaxMonth == 3       \* calendar months that occur in the header
NRegions == 2       \* rows of the table

Years == 2023..2024
Days == {28, 31}
Regions == 1..NRegions

(***************************************************************************)
(* A column name is the text "<year>-<month>-<day>"; it is kept as the     *)
(* three fields.  month = 0 stands for a name that contains '-' but is no  *)
(* date at all.                                                            *)
(***************************************************************************)
ColumnNames == [year : Years, month : 0..MaxMonth, day : Days]

IsLeap(y) == (y % 4 = 0 /\ y % 100 # 0) \/ y % 400 = 0

DaysInMonth(y, m) ==
    IF m = 2 THEN (IF IsLeap(y) THEN 29 ELSE 28)
    ELSE IF m \in {4, 6, 9, 11} THEN 30 ELSE 31

\* datetime.strptime(col, "%Y-%m-%d"): the date, or ok = FALSE for ValueError.
strptime(col) ==
    IF col.month \in 1..12 /\ col.day \in 1..DaysInMonth(col.year, col.month)
    THEN [ok |-> TRUE, year |-> col.year, month |-> col.month]
    ELSE [ok |-> FALSE, year |-> 0, month |-> 0]

Abs(x) == IF x < 0 THEN -x ELSE x

(***************************************************************************)
(* The first loop: the first column whose (year, month) is the target.     *)
(* A column that does not parse is skipped (except: continue).             *)
(***************************************************************************)
RECURSIVE ExactMatchFrom(_, _, _, _)
ExactMatchFrom(cols, i, target_year, target_month) ==
    IF i > Len(cols) THEN None
    ELSE LET col_date == strptime(cols[i]) IN
         IF col_date.ok /\ col_date.year = target_year
                        /\ col_date.month = target_month
         THEN cols[i]
         ELSE ExactMatchFrom(cols, i + 1, target_year, target_month)

MutExactMatchKeepsLast(cols, target_year, target_month) ==
    LET hits == {i \in 1..Len(cols) :
                    /\ strptime(cols[i]).ok
                    /\ strptime(cols[i]).year = target_year
                    /\ strptime(cols[i]).month = target_month}
    IN IF hits = {} THEN None
       ELSE cols[CHOOSE i \in hits : \A j \in hits : j <= i]

ExactMatch(cols, target_year, target_month) ==
    ExactMatchFrom(cols, 1, target_year, target_month)

(***************************************************************************)
(* The second loop: (col, |month - target_month|) of every column of the   *)
(* target year, in input order.                                            *)
(***************************************************************************)
RECURSIVE CandidatesFrom(_, _, _, _)
CandidatesFrom(cols, i, target_year, target_month) ==
    IF i > Len(cols) THEN <<>>
    ELSE LET col_date == strptime(cols[i])
             rest == CandidatesFrom(cols, i + 1, target_year, target_month)
         IN IF col_date.ok /\ col_date.year = target_year
            THEN <<[col |-> cols[i], dist |-> Abs(col_date.month - target_month)]>>
                 \o rest
            ELSE rest

MutCandidatesIgnoreYear(cols, target_year, target_month) ==
    LET RECURSIVE From(_)
        From(i) ==
            IF i > Len(cols) THEN <<>>
            ELSE LET col_date == strptime(cols[i]) IN
                 IF col_date.ok
                 THEN <<[col |-> cols[i], dist |-> Abs(col_date.month - target_month)]>>
                      \o From(i + 1)
                 ELSE From(i + 1)
    IN From(1)

year_ago_candidates(cols, target_year, target_month) ==
    CandidatesFrom(cols, 1, target_year, target_month)

(***************************************************************************)
(* list.sort(key=lambda x: x[1]): a stable sort on the distance.  Insert   *)
(* puts an element after every element whose key is not larger.            *)
(***************************************************************************)
RECURSIVE InsertByDist(_, _)
InsertByDist(s, e) ==
    IF s = <<>> THEN <<e>>
    ELSE IF e.dist < Head(s).dist THEN <<e>> \o s
    ELSE <<Head(s)>> \o InsertByDist(Tail(s), e)

RECURSIVE SortCandidatesFrom(_, _, _)
SortCandidatesFrom(s, i, acc) ==
    IF i > Len(s) THEN acc
    ELSE SortCandidatesFrom(s, i + 1, InsertByDist(acc, s[i]))

MutSortUnstable(s) ==
    LET RECURSIVE Ins(_, _)
        Ins(t, e) == IF t = <<>> THEN <<e>>
                     ELSE IF e.dist <= Head(t).dist THEN <<e>> \o t
                     ELSE <<Head(t)>> \o Ins(Tail(t), e)
        RECURSIVE Go(_, _)
        Go(i, acc) == IF i > Len(s) THEN acc ELSE Go(i + 1, Ins(acc, s[i]))
    IN Go(1, <<>>)

SortCandidates(s) == SortCandidatesFrom(s, 1, <<>>)

\* Lines 61-74: the fallback, taken when the first loop found nothing.
ClosestMatch(cols, target_year, target_month) ==
    LET cands == year_ago_candidates(cols, target_year, target_month) IN
    IF cands = <<>> THEN None
    ELSE SortCandidates(cands)[1].col

MutResolveAnyYear(cols, latest) ==
    LET exact == ExactMatch(cols, latest.year - 1, latest.month) IN
    IF exact # None THEN exact
    ELSE IF ClosestMatch(cols, latest.year - 1, latest.month) # None
         THEN ClosestMatch(cols, latest.year - 1, latest.month)
         ELSE cols[1]

\* Lines 45-78: the column the run compares the latest one with, or None.
\* latest is the parsed latest date.
ResolveYearAgo(cols, latest) ==
    LET target_year == latest.year - 1
        target_month == latest.month
        exact == ExactMatch(cols, target_year, target_month)
    IN IF exact # None THEN exact
       ELSE ClosestMatch(cols, target_year, target_month)


(***************************************************************************)
(* Floating point as pandas computes the change.  A finite value is the    *)
(* exact fraction n/d in lowest terms (d > 0); division by zero gives inf, *)
(* -inf or nan and raises nothing.                                         *)
(***************************************************************************)
RECURSIVE Gcd(_, _)
Gcd(a, b) == IF b = 0 THEN a ELSE Gcd(b, a % b)

Fin(n, d) ==
    LET g == Gcd(Abs(n), Abs(d))
        s == IF d < 0 THEN -1 ELSE 1
    IN [k |-> "fin", n |-> (s * n) \div g, d |-> (s * d) \div g]

PosInf == [k |-> "inf", n |-> 1, d |-> 0]
NegInf == [k |-> "inf", n |-> -1, d |-> 0]
FNaN == [k |-> "nan", n |-> 0, d |-> 0]

\* a / b for two finite integers held as floats.
FDiv(a, b) ==
    IF b # 0 THEN Fin(a, b)
    ELSE IF a > 0 THEN PosInf
    ELSE IF a < 0 THEN NegInf
    ELSE FNaN

\* x * c for an integer c > 0.
FMul(x, c) == IF x.k = "fin" THEN Fin(x.n * c, x.d) ELSE x

\* Comparisons with an integer c; every comparison with nan is False.
FGt(x, c) == IF x.k = "fin" THEN x.n > c * x.d ELSE x.k = "inf" /\ x.n > 0
FLt(x, c) == IF x.k = "fin" THEN x.n < c * x.d ELSE x.k = "inf" /\ x.n < 0
FGe(x, c) == IF x.k = "fin" THEN x.n >= c * x.d ELSE x.k = "inf" /\ x.n > 0
FLe(x, c) == IF x.k = "fin" THEN x.n <= c * x.d ELSE x.k = "inf" /\ x.n < 0

MutPercentOfLatest(latest_price, year_ago_price) ==
    FMul(FDiv(latest_price - year_ago_price, latest_price), 100)

\* (latest - year_ago) / year_ago * 100, the same expression in both scripts.
PercentChange(latest_price, year_ago_price) ==
    FMul(FDiv(latest_price - year_ago_price, year_ago_price), 100)

\* The position of a column name in the header (names are unique).
ColumnIndex(cols, name) == CHOOSE i \in 1..Len(cols) : cols[i] = name

MutDropNaAllOrNothing(tbl, li, yi) ==
    IF \E r \in DOMAIN tbl : tbl[r][li] = NaN \/ tbl[r][yi] = NaN
    THEN {} ELSE DOMAIN tbl

\* df.dropna(subset=[latest_date, year_ago_date]): the rows that stay.
DropNa(tbl, li, yi) == {r \in DOMAIN tbl : tbl[r][li] # NaN /\ tbl[r][yi] # NaN}

\* The fixed clamps of the outlier filters.
MinYoY == -50
MaxYoY == 100
MinPrice == 10000
MaxPrice == 10000000

\* The outlier filter: strict in create_yoy_map, inclusive in
\* create_sophisticated_map.
InBand(scr, change) ==
    IF scr = "yoy" THEN FGt(change, MinYoY) /\ FLt(change, MaxYoY)
    ELSE FGe(change, MinYoY) /\ FLe(change, MaxYoY)

\* Lines 83-92: select the two columns, dropna, compute, filter.
CalculateYoY(scr, tbl, li, yi) ==
    LET kept == DropNa(tbl, li, yi)
        row(r) == [latest_price |-> tbl[r][li].v,
                   year_ago_price |-> tbl[r][yi].v,
                   yoy_change |-> PercentChange(tbl[r][li].v, tbl[r][yi].v)]
    IN Frame([r \in {x \in kept : InBand(scr, row(x).yoy_change)} |-> row(r)])

MutLevelsStrict(tbl, li) ==
    LET kept == {r \in DOMAIN tbl : tbl[r][li] # NaN}
        row(r) == [price_level |-> tbl[r][li].v]
    IN Frame([r \in {x \in kept : /\ row(x).price_level > MinPrice
                                  /\ row(x).price_level < MaxPrice} |-> row(r)])

\* create_price_levels.py lines 45-51: select the latest column, dropna,
\* keep the prices inside the clamp.  A comparison with NaN is False.
CalculateLevels(tbl, li) ==
    LET kept == {r \in DOMAIN tbl : tbl[r][li] # NaN}
        row(r) == [price_level |-> tbl[r][li].v]
    IN Frame([r \in {x \in kept : /\ row(x).price_level >= MinPrice
                                  /\ row(x).price_level <= MaxPrice} |-> row(r)])

(***************************************************************************)
(* The run of a map script.                                                *)
(***************************************************************************)
Scripts == {"yoy", "sophisticated", "levels"}

\* create_yoy_map and create_price_levels_map return False (main then
\* returns 1); the module-level script calls exit(1).
Failure(scr) == IF scr = "sophisticated" THEN "exit(1)" ELSE "False"

\* Lines 36-48: the date columns, the latest one, and its parse, which is
\* outside any try block.  create_price_levels.py never parses the name.
GetDateColumns ==
    /\ pc = "start"
    /\ IF date_columns = <<>>
       THEN /\ ret' = Failure(script)
            /\ pc' = "done"
            /\ UNCHANGED latest_date
       ELSE /\ latest_date' = date_columns[Len(date_columns)]
            /\ IF script = "levels"
               THEN pc' = "calc" /\ UNCHANGED ret
               ELSE IF strptime(date_columns[Len(date_columns)]).ok
               THEN pc' = "find" /\ UNCHANGED ret
               ELSE pc' = "done" /\ ret' = "ValueError"
    /\ UNCHANGED <<script, date_columns, table, year_ago_date, df_yoy, runFiles, quintVars, pageVars,
                   polyVars, checkVars, searchVars>>

\* Lines 50-80: resolve the comparison column or end the run.
FindYearAgo ==
    /\ pc = "find"
    /\ LET found == ResolveYearAgo(date_columns, strptime(latest_date)) IN
       /\ year_ago_date' = found
       /\ IF found = None
          THEN ret' = Failure(script) /\ pc' = "done"
          ELSE pc' = "calc" /\ UNCHANGED ret
    /\ UNCHANGED <<script, date_columns, table, latest_date, df_yoy, runFiles, quintVars, pageVars,
                   polyVars, checkVars, searchVars>>

\* Lines 82-92 (create_yoy_map), 64-69 (create_sophisticated_map).
CalculateChange ==
    /\ pc = "calc"
    /\ script # "levels"
    /\ df_yoy' = CalculateYoY(script, table,
                              ColumnIndex(date_columns, latest_date),
                              ColumnIndex(date_columns, year_ago_date))
    /\ pc' = "calculated"
    /\ UNCHANGED <<script, date_columns, table, latest_date, year_ago_date, ret,
                   runFiles, quintVars, pageVars,
                   polyVars, checkVars, searchVars>>

\* create_price_levels.py lines 44-51.
CalculatePriceLevels ==
    /\ pc = "calc"
    /\ script = "levels"
    /\ df_yoy' = CalculateLevels(table, ColumnIndex(date_columns, latest_date))
    /\ pc' = "calculated"
    /\ UNCHANGED <<script, date_columns, table, latest_date, year_ago_date, ret,
                   runFiles, quintVars, pageVars,
                   polyVars, checkVars, searchVars>>

NextBatch ==
    GetDateColumns \/ FindYearAgo \/ CalculateChange \/ CalculatePriceLevels

(***************************************************************************)
(* Inputs.  Header names are unique (pandas renames a repeated name).      *)
(***************************************************************************)
RECURSIVE SeqsUpTo(_, _)
SeqsUpTo(S, n) ==
    IF n = 0 THEN {<<>>}
    ELSE LET shorter == SeqsUpTo(S, n - 1) IN
         shorter \cup {Append(s, x) : s \in {t \in shorter : Len(t) = n - 1}, x \in S}

Distinct(s) == \A i, j \in 1..Len(s) : i # j => s[i] # s[j]

Headers == {s \in SeqsUpTo(ColumnNames, MaxCols) : Distinct(s)}

Prices == {-100000, 0, 80000, 100000, 120000, 200000}
Cells == {Cell(v) : v \in Prices} \cup {NaN}

QuintIdle == values = <<>> /\ quintiles = <<>>

InitRun ==
    /\ script \in Scripts
    /\ pc = "start"
    /\ latest_date = None
    /\ year_ago_date = None
    /\ df_yoy = NoFrame
    /\ ret = "running"
    /\ zillow_file = TRUE /\ shapefile = TRUE /\ output_file = "none"
    /\ exit_code = -1
    /\ QuintIdle
    /\ PageIdle
    /\ PolyIdle
    /\ CheckIdle
    /\ SearchIdle

\* Every short header, over a table with every cell present.
InitBatch ==
    /\ InitRun
    /\ date_columns \in Headers
    /\ table = [r \in Regions |-> [i \in 1..Len(date_columns) |-> Cell(100000)]]

\* A header of two month-end columns a year apart, over every small table.
InitChange ==
    /\ InitRun
    /\ date_columns = <<[year |-> 2023, month |-> 1, day |-> 31],
                        [year |-> 2024, month |-> 1, day |-> 31]>>
    /\ table \in [Regions -> [1..2 -> Cells]]

SpecBatch == InitBatch /\ [][NextBatch]_vars
SpecChange == InitChange /\ [][NextBatch]_vars

\* create_price_levels_map over every small table whose prices lie at, just
\* inside and just outside the two ends of the clamp.
LevelPrices == {9999, 10000, 500000, 10000000, 10000001}
LevelCells == {Cell(v) : v \in LevelPrices} \cup {NaN}

InitLevels ==
    /\ script = "levels"
    /\ pc = "start"
    /\ latest_date = None
    /\ year_ago_date = None
    /\ df_yoy = NoFrame
    /\ ret = "running"
    /\ zillow_file = TRUE /\ shapefile = TRUE /\ output_file = "none"
    /\ exit_code = -1
    /\ date_columns = <<[year |-> 2023, month |-> 1, day |-> 31],
                        [year |-> 2024, month |-> 1, day |-> 31]>>
    /\ table \in [Regions -> [1..2 -> LevelCells]]
    /\ QuintIdle
    /\ PageIdle
    /\ PolyIdle
    /\ CheckIdle
    /\ SearchIdle

NextLevels == GetDateColumns \/ CalculatePriceLevels

SpecLevels == InitLevels /\ [][NextLevels]_vars

(***************************************************************************)
(* The whole run of create_yoy_map.py and create_price_levels.py, from the *)
(* test for data/ZillowZip.csv to the exit status of the process.          *)
(***************************************************************************)
\* create_yoy_map.py lines 28-33, create_price_levels.py lines 28-33.
LoadZillow ==
    /\ pc = "load"
    /\ IF zillow_file
       THEN pc' = "start" /\ UNCHANGED ret
       ELSE pc' = "done" /\ ret' = "False"
    /\ UNCHANGED <<script, date_columns, table, latest_date, year_ago_date, df_yoy,
                   runFiles, quintVars, pageVars, polyVars, checkVars, searchVars>>

\* create_yoy_map.py lines 114-158 with 443-444, or 121 with 250-254;
\* create_price_levels.py lines 76-118 with 347-348, or 82 with 200-204.
\* The full map when the shapefile exists, the table when it does not; both
\* ways the function then returns True.
WriteOutput ==
    /\ pc = "calculated"
    /\ script \in {"yoy", "levels"}
    /\ output_file' = IF shapefile THEN "map" ELSE "table"
    /\ ret' = "True"
    /\ pc' = "done"
    /\ UNCHANGED <<script, date_columns, table, latest_date, year_ago_date, df_yoy,
                   zillow_file, shapefile, exit_code,
                   quintVars, pageVars, polyVars, checkVars, searchVars>>

MutExitAlwaysZero(success) == 0

\* main: return 0 if success else 1.
ExitCode(success) == IF success = "True" THEN 0 ELSE 1

\* exit(main()); an exception that nothing catches ends the interpreter with
\* status 1.
Main ==
    /\ pc = "done"
    /\ script \in {"yoy", "levels"}
    /\ exit_code' = IF ret = "ValueError" THEN 1 ELSE ExitCode(ret)
    /\ pc' = "exited"
    /\ UNCHANGED <<script, date_columns, table, latest_date, year_ago_date, df_yoy,
                   ret, zillow_file, shapefile, output_file,
                   quintVars, pageVars, polyVars, checkVars, searchVars>>

ExitHeaders == {h \in Headers : Len(h) < MaxCols}

InitExit ==
    /\ script \in {"yoy", "levels"}
    /\ pc = "load"
    /\ zillow_file \in BOOLEAN
    /\ shapefile \in BOOLEAN
    /\ output_file = "none"
    /\ exit_code = -1
    /\ date_columns \in ExitHeaders
    /\ table = [r \in Regions |-> [i \in 1..Len(date_columns) |-> Cell(100000)]]
    /\ latest_date = None
    /\ year_ago_date = None
    /\ df_yoy = NoFrame
    /\ ret = "running"
    /\ QuintIdle
    /\ PageIdle
    /\ PolyIdle
    /\ CheckIdle
    /\ SearchIdle

NextExit ==
    \/ LoadZillow
    \/ GetDateColumns
    \/ FindYearAgo
    \/ CalculateChange
    \/ CalculatePriceLevels
    \/ WriteOutput
    \/ Main

SpecExit == InitExit /\ [][NextExit]_vars



(***************************************************************************)
(*                The script of the generated page                         *)
(*                                                                         *)
(* Numbers are JavaScript doubles, kept as exact fractions (Fin); a price  *)
(* change z.p is given in whole percentage points.                         *)
(***************************************************************************)
MaxLen == 6          \* length of the arrays calculateQuintiles is tried on

R(n) == Fin(n, 1)
RAdd(x, y) ==
    IF x.k = "fin" /\ y.k = "fin" THEN Fin(x.n * y.d + y.n * x.d, x.d * y.d) ELSE FNaN
RMul(x, y) ==
    IF x.k = "fin" /\ y.k = "fin" THEN Fin(x.n * y.n, x.d * y.d) ELSE FNaN

(***************************************************************************)
(* [...values].sort((a, b) => a - b): a copy of the array, sorted          *)
(* ascending by numeric value.                                             *)
(***************************************************************************)
RECURSIVE InsertAscending(_, _)
InsertAscending(s, e) ==
    IF s = <<>> THEN <<e>>
    ELSE IF e < Head(s) THEN <<e>> \o s
    ELSE <<Head(s)>> \o InsertAscending(Tail(s), e)

RECURSIVE SortFrom(_, _, _)
SortFrom(s, i, acc) ==
    IF i > Len(s) THEN acc ELSE SortFrom(s, i + 1, InsertAscending(acc, s[i]))

MutNoSort(s) == s

SortAscending(s) == SortFrom(s, 1, <<>>)

MutSortInPlace(vals) == SortAscending(vals)

\* The caller's array after the call: the spread operator copies it before
\* the sort, so the argument keeps its order.
ArgumentAfterCall(vals) == vals

SmallSampleSize == 5
MinSelection == 2

MutRankIndexRound(n, tenths) == (n * tenths + 5) \div 10

\* Math.floor(sorted.length * 0.2), ... * 0.8, for tenths = 2, 4, 6, 8 (the
\* double product floors to the same integer for every length up to 200000).
RankIndex(n, tenths) == (n * tenths) \div 10

MutInterpolateFromZero(min, range, tenths) == RMul(R(range), Fin(tenths, 10))

\* min + range * 0.2, ... , min + range * 0.8.
Interpolate(min, range, tenths) == RAdd(R(min), RMul(R(range), Fin(tenths, 10)))

\* Lines 545-567.  sorted[0] of an empty array is undefined, and the
\* arithmetic on it gives NaN.
calculateQuintiles(vals) ==
    LET sorted == SortAscending(vals)
        n == Len(sorted)
    IN IF n < SmallSampleSize
       THEN IF n = 0 THEN <<FNaN, FNaN, FNaN, FNaN>>
            ELSE LET min == sorted[1]
                     max == sorted[n]
                     range == max - min
                 IN <<Interpolate(min, range, 2), Interpolate(min, range, 4),
                      Interpolate(min, range, 6), Interpolate(min, range, 8)>>
       ELSE <<R(sorted[RankIndex(n, 2) + 1]), R(sorted[RankIndex(n, 4) + 1]),
              R(sorted[RankIndex(n, 6) + 1]), R(sorted[RankIndex(n, 8) + 1])>>

(***************************************************************************)
(* calculateQuintiles called on its own, on every short array over a few   *)
(* values and on the arrays the specification gives as examples.           *)
(***************************************************************************)
QValues == {-10, 0, 10, 15, 50}
ExampleRanked == <<-10, -5, 0, 5, 10, 15, 20, 25, 30, 35>>
ExampleShuffled == <<20, -5, 35, 0, 30, -10, 15, 5, 25, 10>>
ExampleSmall == <<0, 10, 50>>
QInputs ==
    SeqsUpTo(QValues, MaxLen) \cup {ExampleRanked, ExampleShuffled, ExampleSmall}

BatchIdle ==
    /\ script = "yoy" /\ date_columns = <<>> /\ table = <<>> /\ pc = "idle"
    /\ latest_date = None /\ year_ago_date = None /\ df_yoy = NoFrame
    /\ ret = "running"
    /\ zillow_file = TRUE /\ shapefile = TRUE /\ output_file = "none"
    /\ exit_code = -1

InitQuint ==
    /\ values \in QInputs
    /\ quintiles = <<>>
    /\ BatchIdle
    /\ PageIdle
    /\ PolyIdle
    /\ CheckIdle
    /\ SearchIdle

CallCalculateQuintiles ==
    /\ quintiles = <<>>
    /\ quintiles' = calculateQuintiles(values)
    /\ values' = ArgumentAfterCall(values)
    /\ UNCHANGED <<batchVars, pageVars, polyVars, checkVars, searchVars>>

NextQuint == CallCalculateQuintiles

SpecQuint == InitQuint /\ [][NextQuint]_vars

(***************************************************************************)
(* The data the page is generated with.  Coordinates are in half grid      *)
(* steps: ZIP centroids lie on even coordinates, the corners of drawn      *)
(* shapes on odd ones.                                                     *)
(***************************************************************************)
NZips == 7           \* entries of zipData
GridMax == 2         \* the map's extent, in grid steps

ZipPrices == <<0, 10, 50, -10, 15, 10, 35, 5, 20, -5>>

\* Lines 139-150: one record per ZIP, sorted by population, largest first.
zipData ==
    [i \in 1..NZips |->
        [z |-> i,
         lat |-> 2 * ((i - 1) % 3),
         lon |-> 2 * (((i - 1) \div 3) % 3),
         p |-> ZipPrices[((i - 1) % Len(ZipPrices)) + 1],
         pop |-> 100000 \div i]]

\* np.percentile(price_values, q): linear interpolation between the two
\* closest ranks of the sorted values.
percentile(vals, q) ==
    LET sorted == SortAscending(vals)
        n == Len(sorted)
        lo == (q * (n - 1)) \div 100
        frac == Fin(q * (n - 1) - 100 * lo, 100)
    IN IF lo + 1 >= n THEN R(sorted[n])
       ELSE RAdd(R(sorted[lo + 1]), RMul(frac, R(sorted[lo + 2] - sorted[lo + 1])))

\* The format {x:.1f} read back as a JavaScript number: the nearest tenth,
\* a tie going to the even tenth.
format1f(x) ==
    LET whole == (x.n * 10) \div x.d
        rem == x.n * 10 - whole * x.d
    IN IF 2 * rem < x.d THEN Fin(whole, 10)
       ELSE IF 2 * rem > x.d THEN Fin(whole + 1, 10)
       ELSE IF whole % 2 = 0 THEN Fin(whole, 10) ELSE Fin(whole + 1, 10)

\* Lines 121-123 and 451.
globalQuintiles ==
    LET price_values == [i \in 1..NZips |-> zipData[i].p] IN
    <<format1f(percentile(price_values, 20)), format1f(percentile(price_values, 40)),
      format1f(percentile(price_values, 60)), format1f(percentile(price_values, 80))>>

\* null, and a number where null may stand.
Null == [null |-> TRUE, v |-> 0]
Num(v) == [null |-> FALSE, v |-> v]

(***************************************************************************)
(* Layers.  A drawn layer is an L.Rectangle or an L.Polygon with its ring  *)
(* of corners; NoShape stands for null.                                    *)
(***************************************************************************)
LatLng(lat, lng) == [lat |-> lat, lng |-> lng]
NoShape == [kind |-> "null", latlngs |-> <<>>]

StripRectangle ==
    [kind |-> "rectangle",
     latlngs |-> <<LatLng(-1, -1), LatLng(5, -1), LatLng(5, 1), LatLng(-1, 1)>>]
TrianglePolygon ==
    [kind |-> "polygon", latlngs |-> <<LatLng(-1, -1), LatLng(6, -1), LatLng(-1, 6)>>]
CellPolygon ==
    [kind |-> "polygon",
     latlngs |-> <<LatLng(1, 1), LatLng(1, 3), LatLng(3, 3), LatLng(3, 1)>>]
FarPolygon ==
    [kind |-> "polygon",
     latlngs |-> <<LatLng(-3, -3), LatLng(-3, -1), LatLng(-1, -1), LatLng(-1, -3)>>]
Shapes == {StripRectangle, TrianglePolygon, CellPolygon, FarPolygon}

Min(S) == CHOOSE x \in S : \A y \in S : x <= y
Max(S) == CHOOSE x \in S : \A y \in S : x >= y

\* layer.getBounds()
getBounds(layer) ==
    LET lats == {layer.latlngs[i].lat : i \in 1..Len(layer.latlngs)}
        lngs == {layer.latlngs[i].lng : i \in 1..Len(layer.latlngs)}
    IN [south |-> Min(lats), north |-> Max(lats), west |-> Min(lngs), east |-> Max(lngs)]

MutContainsOpen(b, lat, lng) ==
    lat > b.south /\ lat < b.north /\ lng > b.west /\ lng < b.east

\* L.LatLngBounds.contains: the edges are inside.
contains(b, lat, lng) ==
    lat >= b.south /\ lat <= b.north /\ lng >= b.west /\ lng <= b.east

\* Line 734-735 for the edge from corner j to corner i, the division
\* multiplied out (yj # yi whenever the first conjunct holds).
Intersects(xi, yi, xj, yj, lat, lng) ==
    /\ (yi > lng) # (yj > lng)
    /\ IF yj - yi > 0
       THEN (lat - xi) * (yj - yi) < (xj - xi) * (lng - yi)
       ELSE (lat - xi) * (yj - yi) > (xj - xi) * (lng - yi)

\* Lines 726-740: the loop over i with j = i - 1 (the last corner first).
RECURSIVE InsideFrom(_, _, _, _, _)
InsideFrom(latlngs, i, inside, lat, lng) ==
    IF i > Len(latlngs) THEN inside
    ELSE LET j == IF i = 1 THEN Len(latlngs) ELSE i - 1
             intersect == Intersects(latlngs[i].lat, latlngs[i].lng,
                                     latlngs[j].lat, latlngs[j].lng, lat, lng)
         IN InsideFrom(latlngs, i + 1, IF intersect THEN ~inside ELSE inside, lat, lng)

MutSkipClosingEdge(lat, lng, polygon) ==
    InsideFrom(polygon.latlngs, 2, FALSE, lat, lng)

isPointInPolygon(lat, lng, polygon) == InsideFrom(polygon.latlngs, 1, FALSE, lat, lng)

\* The filter of lines 704-719 for one ZIP.
InBoundary(zip, layer) ==
    IF layer.kind = "rectangle" THEN contains(getBounds(layer), zip.lat, zip.lon)
    ELSE IF layer.kind = "polygon"
    THEN IF ~contains(getBounds(layer), zip.lat, zip.lon) THEN FALSE
         ELSE isPointInPolygon(zip.lat, zip.lon, layer)
    ELSE FALSE

\* Array.prototype.filter over zipData: the order is kept.
Filter(P(_)) == SelectSeq(zipData, P)

\* Lines 570-573.
getVisibleZips(b) == LET vis(zz) == contains(b, zz.lat, zz.lon) IN Filter(vis)

\* Lines 700-723, for a boundary that is not null.
getZipsInBoundary(layer) == LET inb(zz) == InBoundary(zz, layer) IN Filter(inb)

Prices_(zips) == [i \in 1..Len(zips) |-> zips[i].p]
Populations(zips) == {zips[i].pop : i \in 1..Len(zips)}

\* The arguments updateLegend was called with.
LegendCall(q, zipCount, minPop, maxPop, isSmallSample) ==
    [quintiles |-> q, zipCount |-> zipCount, minPop |-> minPop, maxPop |-> maxPop,
     isSmallSample |-> isSmallSample]

History(by, zips) == [by |-> by, zips |-> zips]

MutTooFewOnlyEmpty(n) == n < 1

\* visibleZips.length < 2 (lines 580 and 749).
TooFew(n) == n < MinSelection

MutSmallSampleInclusive(n) == n <= SmallSampleSize

\* visibleZips.length < 5 (lines 591 and 760).
IsSmallSample(n) == n < SmallSampleSize

MutRecomputeTorn(st, zips, by) ==
    [st EXCEPT !.currentQuintiles = IF TooFew(Len(zips)) THEN globalQuintiles
                                    ELSE calculateQuintiles(Prices_(zips)),
               !.recomputed = History(by, zips)]

\* The shared body of updateLocalQuintiles (lines 580-593) and
\* updateBoundaryQuintiles (lines 749-764) on the selection zips.
Recompute(st, zips, by) ==
    IF TooFew(Len(zips))
    THEN [st EXCEPT !.currentQuintiles = globalQuintiles,
                    !.currentMinPop = Null,
                    !.currentMaxPop = Null,
                    !.legend = LegendCall(globalQuintiles, Len(zips), Null, Null, FALSE),
                    !.recomputed = History(by, zips)]
    ELSE LET q == calculateQuintiles(Prices_(zips))
             lo == Num(Min(Populations(zips)))
             hi == Num(Max(Populations(zips)))
         IN [st EXCEPT !.currentQuintiles = q,
                       !.currentMinPop = lo,
                       !.currentMaxPop = hi,
                       !.legend = LegendCall(q, Len(zips), lo, hi,
                                             IsSmallSample(Len(zips))),
                       !.recomputed = History(by, zips)]

\* Lines 576-595.
updateLocalQuintiles(st) ==
    IF ~st.isLocalMode THEN st
    ELSE Recompute(st, getVisibleZips(st.bounds), "updateLocalQuintiles")

\* Lines 743-766.  getZipsInBoundary returns null without a boundary, and
\* the fallback branch then reports 0 ZIPs.
updateBoundaryQuintiles(st) ==
    IF ~st.isLocalMode THEN st
    ELSE Recompute(st,
                   IF st.drawnBoundary = NoShape THEN <<>>
                   ELSE getZipsInBoundary(st.drawnBoundary),
                   "updateBoundaryQuintiles")

MutToggleKeepsBreakpoints(st) ==
    LET flipped == [st EXCEPT !.isLocalMode = ~st.isLocalMode] IN
    IF flipped.isLocalMode THEN updateLocalQuintiles(flipped)
    ELSE [flipped EXCEPT !.legend = LegendCall(globalQuintiles, NZips, Null, Null, FALSE),
                         !.recomputed = History("toggleView", <<>>)]

\* Lines 626-651.
toggleView(st) ==
    LET flipped == [st EXCEPT !.isLocalMode = ~st.isLocalMode] IN
    IF flipped.isLocalMode THEN updateLocalQuintiles(flipped)
    ELSE [flipped EXCEPT !.currentQuintiles = globalQuintiles,
                         !.currentMinPop = Null,
                         !.currentMaxPop = Null,
                         !.legend = LegendCall(globalQuintiles, NZips, Null, Null, FALSE),
                         !.recomputed = History("toggleView", <<>>)]

MutRemoveNothing(group, layer) == group

\* drawnItems.removeLayer(layer), lines 684 and 1060.
removeLayer(group, layer) == group \ {layer}

MutClearWithoutRecomputing(st) ==
    IF st.drawnBoundary = NoShape THEN st
    ELSE [st EXCEPT !.drawnItems = st.drawnItems \ {st.drawnBoundary},
                    !.drawnBoundary = NoShape]

\* Lines 682-697.
clearDrawnBoundary(st) ==
    IF st.drawnBoundary = NoShape THEN st
    ELSE LET cleared == [st EXCEPT !.drawnItems = removeLayer(st.drawnItems, st.drawnBoundary),
                                   !.drawnBoundary = NoShape]
         IN IF cleared.isLocalMode THEN updateLocalQuintiles(cleared) ELSE cleared

MutToggleDrawIgnoresBoundary(st) ==
    [st EXCEPT !.isDrawingMode = ~st.isDrawingMode]

\* Lines 654-679.
toggleDrawMode(st) ==
    IF st.drawnBoundary # NoShape THEN clearDrawnBoundary(st)
    ELSE [st EXCEPT !.isDrawingMode = ~st.isDrawingMode]

MutCreatedKeepsView(st, layer) ==
    LET removed == IF st.drawnBoundary # NoShape
                   THEN removeLayer(st.drawnItems, st.drawnBoundary)
                   ELSE st.drawnItems
        installed == [st EXCEPT !.drawnBoundary = layer,
                                !.drawnItems = removed \cup {layer},
                                !.isDrawingMode = FALSE]
    IN updateBoundaryQuintiles(installed)

\* Lines 1055-1083.
onCreated(st, layer) ==
    LET removed == IF st.drawnBoundary # NoShape
                   THEN removeLayer(st.drawnItems, st.drawnBoundary)
                   ELSE st.drawnItems
        installed == [st EXCEPT !.drawnBoundary = layer,
                                !.drawnItems = removed \cup {layer},
                                !.isDrawingMode = FALSE]
    IN IF ~installed.isLocalMode THEN toggleView(installed)
       ELSE updateBoundaryQuintiles(installed)

\* Lines 1085-1092; the draw control has taken the layers out of drawnItems
\* before it fires the event.
onDeleted(st, layers) ==
    LET taken == [st EXCEPT !.drawnItems = st.drawnItems \ layers] IN
    IF st.drawnBoundary \in layers THEN clearDrawnBoundary(taken) ELSE taken

\* Lines 1041-1051: the callback of the debounce timer; it has run, so it
\* is pending no more.
onTimeout(st) ==
    LET fired == [st EXCEPT !.updateTimeout = st.updateTimeout - 1] IN
    IF fired.isLocalMode
    THEN IF fired.drawnBoundary # NoShape THEN updateBoundaryQuintiles(fired)
         ELSE updateLocalQuintiles(fired)
    ELSE fired

MutClearNothing(pending) == pending

\* clearTimeout(updateTimeout), line 1040: the callback updateTimeout names,
\* the one set last, is cancelled if it is still pending.
clearTimeout(pending) == IF pending > 0 THEN pending - 1 ELSE 0

\* setTimeout(..., 300), line 1041: one more callback is pending.
setTimeout(pending) == pending + 1

\* Lines 1039-1041: the map has moved to b; the pending timer is cleared and
\* a new one is set.
onMoveEnd(st, b) ==
    [st EXCEPT !.bounds = b, !.updateTimeout = setTimeout(clearTimeout(st.updateTimeout))]

(***************************************************************************)
(* The page as a state machine: one action per event.                      *)
(***************************************************************************)
GridLines == {2 * k : k \in 0..GridMax}
Viewports ==
    {b \in [south : GridLines, north : GridLines, west : GridLines, east : GridLines] :
        b.south <= b.north /\ b.west <= b.east}

St ==
    [isLocalMode |-> isLocalMode, currentQuintiles |-> currentQuintiles,
     currentMinPop |-> currentMinPop, currentMaxPop |-> currentMaxPop,
     drawnBoundary |-> drawnBoundary, drawnItems |-> drawnItems,
     isDrawingMode |-> isDrawingMode, updateTimeout |-> updateTimeout,
     bounds |-> bounds, legend |-> legend, recomputed |-> recomputed,
     lastEvent |-> lastEvent]

\* The handler of event ev has run and left the page in state st.
After(ev, st) == [st EXCEPT !.lastEvent = ev]

Becomes(st) ==
    /\ isLocalMode' = st.isLocalMode
    /\ currentQuintiles' = st.currentQuintiles
    /\ currentMinPop' = st.currentMinPop
    /\ currentMaxPop' = st.currentMaxPop
    /\ drawnBoundary' = st.drawnBoundary
    /\ drawnItems' = st.drawnItems
    /\ isDrawingMode' = st.isDrawingMode
    /\ updateTimeout' = st.updateTimeout
    /\ bounds' = st.bounds
    /\ legend' = st.legend
    /\ recomputed' = st.recomputed
    /\ lastEvent' = st.lastEvent
    /\ UNCHANGED <<batchVars, quintVars, polyVars, checkVars, searchVars>>

\* Lines 453-467 and 481-483: the state when the script has run.
Init ==
    /\ isLocalMode = FALSE
    /\ currentQuintiles = globalQuintiles
    /\ currentMinPop = Null
    /\ currentMaxPop = Null
    /\ drawnBoundary = NoShape
    /\ drawnItems = {}
    /\ isDrawingMode = FALSE
    /\ updateTimeout = 0
    /\ bounds = [south |-> 0, north |-> 2 * GridMax, west |-> 0, east |-> 2 * GridMax]
    /\ legend = LegendCall(globalQuintiles, NZips, Null, Null, FALSE)
    /\ recomputed = History("load", <<>>)
    /\ lastEvent = "load"
    /\ BatchIdle
    /\ QuintIdle
    /\ PolyIdle
    /\ CheckIdle
    /\ SearchIdle

\* One event: its handler runs to completion on the page as it is, and the
\* page becomes what the handler left.
Handle(ev, st) == \E after \in {After(ev, st)} : Becomes(after)

ClickToggleView == Handle("toggleView", toggleView(St))

ClickDrawBoundary == Handle("toggleDrawMode", toggleDrawMode(St))

\* The history tells a shape drawn while a boundary exists ("replaced") from
\* a first shape ("created").
DrawCreated ==
    \E layer \in Shapes :
        Handle(IF drawnBoundary # NoShape THEN "replaced" ELSE "created",
               onCreated(St, layer))

DrawDeleted ==
    \E layers \in (SUBSET drawnItems) \ {{}} :
        Handle("deleted", onDeleted(St, layers))

MoveEnd == \E b \in Viewports : Handle("moveend", onMoveEnd(St, b))

\* The callback runs when its 300 ms have passed with no moveend or zoomend
\* event in between (an event in between has cancelled it).
Timeout == updateTimeout > 0 /\ Handle("timeout", onTimeout(St))

Next ==
    \/ ClickToggleView
    \/ ClickDrawBoundary
    \/ DrawCreated
    \/ DrawDeleted
    \/ MoveEnd
    \/ Timeout

Spec == Init /\ [][Next]_vars

(***************************************************************************)
(* isPointInPolygon called on its own: twice on the same point and ring,   *)
(* for every ring of up to MaxCorners distinct corners of a small grid     *)
(* (rings of 1 or 2 corners and rings that cross themselves included),     *)
(* every point of the finer grid, and the square the specification gives   *)
(* as an example.                                                          *)
(***************************************************************************)
MaxCorners == 4      \* corners of a ring

PolyCoords == {0, 2, 4}
Corners == {LatLng(x, y) : x \in PolyCoords, y \in PolyCoords}
Rings == {r \in SeqsUpTo(Corners, MaxCorners) : Len(r) >= 1 /\ Distinct(r)}
Polygon(r) == [kind |-> "polygon", latlngs |-> r]
TestPoints == {LatLng(x, y) : x \in 0..4, y \in 0..4}

ExampleSquare ==
    Polygon(<<LatLng(0, 0), LatLng(0, 10), LatLng(10, 10), LatLng(10, 0)>>)
ExamplePoints == {LatLng(5, 5), LatLng(15, 15)}

InitPoly ==
    /\ \/ testPolygon \in {Polygon(r) : r \in Rings} /\ testPoint \in TestPoints
       \/ testPolygon = ExampleSquare /\ testPoint \in ExamplePoints
    /\ returned = <<>>
    /\ BatchIdle
    /\ QuintIdle
    /\ PageIdle
    /\ CheckIdle
    /\ SearchIdle

CallIsPointInPolygon ==
    /\ Len(returned) < 2
    /\ returned' = Append(returned,
                          isPointInPolygon(testPoint.lat, testPoint.lng, testPolygon))
    /\ UNCHANGED <<testPolygon, testPoint, batchVars, quintVars, pageVars,
                   checkVars, searchVars>>

NextPoly == CallIsPointInPolygon

SpecPoly == InitPoly /\ [][NextPoly]_vars


(***************************************************************************)
(*                       check_for_updates.py                              *)
(*                                                                         *)
(* One run after another against the same data/last_update.json.  A run's  *)
(* request meets an HTTP error status, a connection error, a response with *)
(* no line at all, or a header whose last column is some text.  Of what a  *)
(* run prints, stdout keeps the NEW_DATA lines.  checked_at is the number  *)
(* of the run that wrote the file, 0 for a file older than the first run.  *)
(***************************************************************************)
MaxRuns == 3        \* runs of check_for_updates.py

LastColumns == {c \in ColumnNames : c.year = 2024}

Responses ==
    {[kind |-> "ok", last |-> c] : c \in LastColumns}
    \cup {[kind |-> k, last |-> None] : k \in {"http_error", "connection_error", "empty"}}

\* What the try block is left with: the last column when every statement of
\* it passed, and (None, None) from the except clause otherwise.
MutFetchNoDateCheck(response) ==
    IF response.kind = "ok" THEN response.last ELSE None

get_latest_date_from_zillow(response) ==
    IF response.kind = "ok" /\ strptime(response.last).ok
    THEN response.last
    ELSE None

\* metadata.get('last_date') is None for a file without the key.
get_stored_date(file) ==
    IF file.exists THEN file.last_date ELSE None

save_metadata(date_str, now) ==
    [exists |-> TRUE, last_date |-> date_str, checked_at |-> now]

MutMainAlwaysSaves(response, file, now) ==
    LET latest_date_str == get_latest_date_from_zillow(response)
        stored_date == get_stored_date(file)
    IN  IF latest_date_str = None
        THEN [exit |-> 1, stdout |-> <<>>, metadata |-> file]
        ELSE [exit |-> 0,
              stdout |-> IF stored_date = None \/ latest_date_str # stored_date
                         THEN <<"NEW_DATA=true">> ELSE <<"NEW_DATA=false">>,
              metadata |-> save_metadata(latest_date_str, now)]

\* main: the exit code, the NEW_DATA lines printed and the file it leaves.
main(response, file, now) ==
    LET latest_date_str == get_latest_date_from_zillow(response)
        stored_date == get_stored_date(file)
    IN  IF latest_date_str = None
        THEN [exit |-> 1, stdout |-> <<>>, metadata |-> file]
        ELSE IF stored_date = None
        THEN [exit |-> 0, stdout |-> <<"NEW_DATA=true">>,
              metadata |-> save_metadata(latest_date_str, now)]
        ELSE IF latest_date_str # stored_date
        THEN [exit |-> 0, stdout |-> <<"NEW_DATA=true">>,
              metadata |-> save_metadata(latest_date_str, now)]
        ELSE [exit |-> 0, stdout |-> <<"NEW_DATA=false">>, metadata |-> file]

RunCheck ==
    /\ runs < MaxRuns
    /\ \E response \in Responses :
         LET run == main(response, metadata, runs + 1) IN
         /\ upstream' = response
         /\ metadata' = run.metadata
         /\ stdout' = run.stdout
         /\ check_exit' = run.exit
    /\ runs' = runs + 1
    /\ UNCHANGED <<batchVars, quintVars, pageVars, polyVars, searchVars>>

\* The file the first run finds: none, or one an earlier run or a hand left,
\* with any text or no last_date at all.
StoredFiles ==
    {NoMetadata}
    \cup {[exists |-> TRUE, last_date |-> d, checked_at |-> 0] :
             d \in LastColumns \cup {None}}

InitCheck ==
    /\ upstream = NoResponse
    /\ metadata \in StoredFiles
    /\ stdout = <<>>
    /\ check_exit = -1
    /\ runs = 0
    /\ BatchIdle
    /\ QuintIdle
    /\ PageIdle
    /\ PolyIdle
    /\ SearchIdle

NextCheck == RunCheck

SpecCheck == InitCheck /\ [][NextCheck]_vars


(***************************************************************************)
(*                    The search box of the generated page                 *)
(*                                                                         *)
(* Text is a sequence of characters.  A ZIP code is five digits; a name is *)
(* a place name or, for a region without one, "ZIP " and the code.  An     *)
(* entry of currentSuggestions is kept as the index of its record in       *)
(* searchIndex.  map.flyTo and the popup of goToLocation are kept as the   *)
(* history searchOutcome; the map's move ends in the moveend events of the *)
(* page.                                                                   *)
(***************************************************************************)
MaxQuery == 3        \* characters typed into the box
SuggestionLimit == 10

Digits == <<"0", "1", "2", "3", "4", "5", "6", "7", "8", "9">>
TypedChars == {"1", "0", "a", "A", " "}

\* zipData[i].z and zipData[i].n (lines 139-147) as text.
ZipText(i) == <<Digits[((i - 1) % 3) + 2], "0", "0", "0", Digits[((i - 1) \div 3) + 2]>>
PlaceNames == << <<"A", "a">>, <<"B", "a", "a">>, <<"a", " ", "A">> >>
NameText(i) ==
    IF i % 4 = 0 THEN <<"Z", "I", "P", " ">> \o ZipText(i) ELSE PlaceNames[i % 4]

\* String.prototype.toLowerCase.
toLowerCase(str) ==
    LET LowerChar(c) ==
            CASE c = "A" -> "a" [] c = "B" -> "b" [] c = "Z" -> "z"
              [] c = "I" -> "i" [] c = "P" -> "p" [] OTHER -> c
    IN [k \in 1..Len(str) |-> LowerChar(str[k])]

\* String.prototype.trim.
trim(str) ==
    LET RECURSIVE trimStart(_)
        trimStart(t) ==
            IF t # <<>> /\ Head(t) = " " THEN trimStart(Tail(t)) ELSE t
        RECURSIVE trimEnd(_)
        trimEnd(t) ==
            IF t # <<>> /\ t[Len(t)] = " " THEN trimEnd(SubSeq(t, 1, Len(t) - 1))
            ELSE t
    IN trimEnd(trimStart(str))

startsWith(str, prefix) ==
    Len(prefix) <= Len(str) /\ SubSeq(str, 1, Len(prefix)) = prefix
includes(str, part) ==
    \E k \in 1..(Len(str) - Len(part) + 1) : SubSeq(str, k, k + Len(part) - 1) = part

\* /^\d{1,5}$/.test(query).
IsZipPrefix(query) ==
    /\ Len(query) \in 1..5
    /\ \A k \in 1..Len(query) : \E d \in 1..Len(Digits) : query[k] = Digits[d]

\* Lines 470-478.
searchIndex ==
    [i \in 1..NZips |-> [zip |-> ZipText(i), name |-> toLowerCase(NameText(i)),
                         nameOriginal |-> NameText(i)]]

\* searchIndex.filter(test), as the indices of the records that pass, in
\* order; .slice(0, 10); .find(test), 0 when there is none.  A test is the
\* function from a record's index to what the arrow function returns on it.
filter(test) ==
    LET RECURSIVE InOrder(_)
        InOrder(S) == IF S = {} THEN <<>> ELSE <<Min(S)>> \o InOrder(S \ {Min(S)})
    IN InOrder({i \in 1..NZips : test[i]})
slice(arr, n) == SubSeq(arr, 1, IF Len(arr) < n THEN Len(arr) ELSE n)
find(test) == LET hits == filter(test) IN IF hits = <<>> THEN 0 ELSE hits[1]

Outcome(did, zip) == [did |-> did, zip |-> zip]

MutMinFirst(a, b) == a

MathMin(a, b) == IF a < b THEN a ELSE b
MathMax(a, b) == IF a > b THEN a ELSE b

\* Lines 1004-1035.
goToLocation(s, zipCode) ==
    LET ZipIs == [i \in 1..NZips |-> searchIndex[i].zip = zipCode]
        location == find(ZipIs)
    IN IF location = 0 THEN s
       ELSE [s EXCEPT !.suggestionsActive = FALSE,
                      !.searchBox = zipCode \o <<" ", "-", " ">>
                                            \o searchIndex[location].nameOriginal,
                      !.selectedSuggestionIndex = -1,
                      !.currentSuggestions = <<>>,
                      !.searchOutcome = Outcome("flyTo", zipCode)]

\* Lines 978-1002.
performSearch(s) ==
    LET query == trim(s.searchBox)
        queryLower == toLowerCase(query)
        ZipIs == [i \in 1..NZips |-> searchIndex[i].zip = query]
        ZipStarts == [i \in 1..NZips |-> startsWith(searchIndex[i].zip, query)]
        NameHas == [i \in 1..NZips |-> includes(searchIndex[i].name, queryLower)]
        exact == find(ZipIs)
        prefix == IF exact = 0 /\ IsZipPrefix(query) THEN find(ZipStarts) ELSE exact
        found == IF prefix = 0 THEN find(NameHas) ELSE prefix
    IN IF query = <<>> THEN s
       ELSE IF found # 0 THEN goToLocation(s, searchIndex[found].zip)
       ELSE [s EXCEPT !.searchOutcome = Outcome("alert", <<>>)]

\* Lines 935-965.
showSuggestions(s, query) ==
    LET queryLower == toLowerCase(query)
        ZipStarts == [i \in 1..NZips |-> startsWith(searchIndex[i].zip, query)]
        NameHas == [i \in 1..NZips |-> includes(searchIndex[i].name, queryLower)]
        byZip == IF IsZipPrefix(query) THEN slice(filter(ZipStarts), SuggestionLimit)
                 ELSE <<>>
        matches == IF byZip = <<>> THEN slice(filter(NameHas), SuggestionLimit)
                   ELSE byZip
    IN IF Len(matches) > 0
       THEN [s EXCEPT !.currentSuggestions = matches,
                      !.suggestionItems = matches,
                      !.suggestionsActive = TRUE]
       ELSE [s EXCEPT !.currentSuggestions = <<>>,
                      !.suggestionsActive = FALSE]

\* Lines 890-933: the keyup handler; value is the text in the box when the
\* key is released.  An index outside the list makes line 911 read the zip
\* of undefined, a TypeError that ends the handler.
handleSearch(s0, key, value) ==
    LET s == [s0 EXCEPT !.searchBox = value, !.searchOutcome = Outcome("none", <<>>)]
        query == trim(value)
        n == Len(s.currentSuggestions)
    IN CASE key = "ArrowDown" ->
              IF n > 0
              THEN [s EXCEPT !.selectedSuggestionIndex =
                                 MathMin(s.selectedSuggestionIndex + 1, n - 1)]
              ELSE s
         [] key = "ArrowUp" ->
              IF n > 0
              THEN [s EXCEPT !.selectedSuggestionIndex =
                                 MathMax(s.selectedSuggestionIndex - 1, -1)]
              ELSE s
         [] key = "Enter" ->
              IF s.selectedSuggestionIndex >= 0
              THEN IF s.selectedSuggestionIndex + 1 \in 1..n
                   THEN goToLocation(s, searchIndex[
                            s.currentSuggestions[s.selectedSuggestionIndex + 1]].zip)
                   ELSE [s EXCEPT !.searchOutcome = Outcome("TypeError", <<>>)]
              ELSE performSearch(s)
         [] key = "Escape" ->
              [s EXCEPT !.suggestionsActive = FALSE, !.selectedSuggestionIndex = -1]
         [] OTHER ->
              LET reset == [s EXCEPT !.selectedSuggestionIndex = -1] IN
              IF Len(query) < 2
              THEN [reset EXCEPT !.suggestionsActive = FALSE,
                                 !.currentSuggestions = <<>>]
              ELSE showSuggestions(reset, query)

SearchSt ==
    [searchBox |-> searchBox, currentSuggestions |-> currentSuggestions,
     selectedSuggestionIndex |-> selectedSuggestionIndex,
     suggestionsActive |-> suggestionsActive, suggestionItems |-> suggestionItems,
     searchOutcome |-> searchOutcome]

SearchBecomes(s) ==
    /\ searchBox' = s.searchBox
    /\ currentSuggestions' = s.currentSuggestions
    /\ selectedSuggestionIndex' = s.selectedSuggestionIndex
    /\ suggestionsActive' = s.suggestionsActive
    /\ suggestionItems' = s.suggestionItems
    /\ searchOutcome' = s.searchOutcome
    /\ UNCHANGED <<batchVars, quintVars, pageVars, polyVars, checkVars>>

\* What one keystroke makes of the text: a character more (up to MaxQuery),
\* the last character less, one character in place of all of it, or nothing.
Edits(text) ==
    (IF Len(text) < MaxQuery THEN {Append(text, c) : c \in TypedChars} ELSE {})
    \cup (IF Len(text) > 0 THEN {SubSeq(text, 1, Len(text) - 1)} ELSE {})
    \cup {<<c>> : c \in TypedChars}
    \cup {<<>>}

\* A key that edits the text (line 412: the handler runs when it is released).
TypeKey ==
    \E value \in Edits(searchBox) :
        \E s \in {handleSearch(SearchSt, "Character", value)} : SearchBecomes(s)

\* A key that leaves the text as it is.
PressKey ==
    \E key \in {"ArrowDown", "ArrowUp", "Enter", "Escape", "Shift"} :
        \E s \in {handleSearch(SearchSt, key, searchBox)} : SearchBecomes(s)

\* Line 413: the Search button.
ClickSearch ==
    \E s \in {performSearch([SearchSt EXCEPT !.searchOutcome = Outcome("none", <<>>)])} :
        SearchBecomes(s)

\* Line 956: a click on an entry of the list while it is shown.
ClickSuggestion ==
    /\ suggestionsActive
    /\ \E k \in 1..Len(suggestionItems) :
         \E s \in {goToLocation([SearchSt EXCEPT !.searchOutcome = Outcome("none", <<>>)],
                                searchIndex[suggestionItems[k]].zip)} :
             SearchBecomes(s)

NextSearch ==
    \/ TypeKey
    \/ PressKey
    \/ ClickSearch
    \/ ClickSuggestion

SpecSearch == Init /\ [][NextSearch]_vars

(***************************************************************************)
(*                     Properties of the batch scripts                     *)
(***************************************************************************)

\* The run is past lines 50-78: the latest column parsed and the resolver
\* has run.
ResolverRan ==
    /\ script # "levels"
    /\ pc \in {"calc", "calculated"} \/ (pc = "done" /\ ret # "ValueError"
                                                     /\ date_columns # <<>>)

\* The parsed latest date T.
LatestT == strptime(latest_date)

\* Indices of the columns whose (year, month) is (T.year - 1, T.month).
ExactIdx ==
    {i \in 1..Len(date_columns) :
        /\ strptime(date_columns[i]).ok
        /\ strptime(date_columns[i]).year = LatestT.year - 1
        /\ strptime(date_columns[i]).month = LatestT.month}

\* Indices of the columns that lie in year T.year - 1.
TargetYearIdx ==
    {i \in 1..Len(date_columns) :
        /\ strptime(date_columns[i]).ok
        /\ strptime(date_columns[i]).year = LatestT.year - 1}

MonthDist(i) == Abs(strptime(date_columns[i]).month - LatestT.month)

MinIdx(S) == CHOOSE i \in S : \A j \in S : i <= j

\* C1: whenever some column's (year, month) is (T.year - 1, T.month), the
\* resolver of either script returns the first such column in input order,
\* and so no other column of the target year.
C1_ExactMatch ==
    (ResolverRan /\ ExactIdx # {}) =>
        year_ago_date = date_columns[MinIdx(ExactIdx)]

\* C1 witness: create_yoy_map resolved a header in which two columns match
\* the target (year, month).
C1_Witness ==
    /\ ResolverRan /\ script = "yoy" /\ pc = "calc"
    /\ Cardinality(ExactIdx) >= 2
    /\ year_ago_date = date_columns[MinIdx(ExactIdx)]

\* C2: with no exact match but some column in year T.year - 1, the resolver
\* returns the column of that year whose month is nearest to T.month, and
\* among equidistant columns the one with the smallest index.
C2_ClosestMonth ==
    (ResolverRan /\ ExactIdx = {} /\ TargetYearIdx # {}) =>
        \E i \in TargetYearIdx :
            /\ year_ago_date = date_columns[i]
            /\ \A j \in TargetYearIdx : MonthDist(i) <= MonthDist(j)
            /\ \A j \in TargetYearIdx : MonthDist(j) = MonthDist(i) => i <= j

\* C2 witness: two columns of the target year are equidistant from T.month,
\* the later calendar month comes first in the header, and it is returned.
C2_Witness ==
    /\ ResolverRan /\ pc = "calc" /\ ExactIdx = {}
    /\ \E i, j \in TargetYearIdx :
          /\ i < j
          /\ MonthDist(i) = MonthDist(j)
          /\ strptime(date_columns[i]).month > strptime(date_columns[j]).month
          /\ year_ago_date = date_columns[i]

\* C3: when no column lies in year T.year - 1 the run ends in its error
\* outcome (False from create_yoy_map, exit(1) from the module-level script),
\* nothing is resolved and no change is ever computed.
C3_NoTargetYearFails ==
    (ResolverRan /\ TargetYearIdx = {}) =>
        /\ pc = "done"
        /\ ret = (IF script = "yoy" THEN "False" ELSE "exit(1)")
        /\ year_ago_date = None
        /\ df_yoy = NoFrame

\* C3 witness: create_sophisticated_map failed on a header that holds a
\* parseable column of another year besides the latest one.
C3_Witness ==
    /\ ResolverRan /\ script = "sophisticated" /\ TargetYearIdx = {}
    /\ ret = "exit(1)"
    /\ \E i \in 1..(Len(date_columns) - 1) : strptime(date_columns[i]).ok

\* The cells of region r under the latest and the comparison column.
LatestCell(r) == table[r][ColumnIndex(date_columns, latest_date)]
PriorCell(r) == table[r][ColumnIndex(date_columns, year_ago_date)]

Computed == script # "levels" /\ pc = "calculated"

\* C4: every region of the result whose prior value is positive carries the
\* change (current - prior) / prior * 100; 120000 against 100000 gives 20
\* and 80000 against 100000 gives -20.
C4_PercentChange ==
    Computed =>
        /\ \A r \in DOMAIN df_yoy.rows :
              PriorCell(r).v > 0 =>
                 /\ df_yoy.rows[r].yoy_change.k = "fin"
                 /\ df_yoy.rows[r].yoy_change.n * PriorCell(r).v
                      = (LatestCell(r).v - PriorCell(r).v) * 100
                          * df_yoy.rows[r].yoy_change.d
        /\ \A r \in Regions :
              (LatestCell(r) = Cell(120000) /\ PriorCell(r) = Cell(100000)) =>
                 /\ r \in DOMAIN df_yoy.rows
                 /\ df_yoy.rows[r].yoy_change = [k |-> "fin", n |-> 20, d |-> 1]
        /\ \A r \in Regions :
              (LatestCell(r) = Cell(80000) /\ PriorCell(r) = Cell(100000)) =>
                 /\ r \in DOMAIN df_yoy.rows
                 /\ df_yoy.rows[r].yoy_change = [k |-> "fin", n |-> -20, d |-> 1]

\* C4 witness: one table holds both examples and both are in the result.
C4_Witness ==
    /\ Computed
    /\ \E r, q \in DOMAIN df_yoy.rows :
          /\ LatestCell(r) = Cell(120000) /\ PriorCell(r) = Cell(100000)
          /\ LatestCell(q) = Cell(80000) /\ PriorCell(q) = Cell(100000)

\* C5 as claimed: no region of the result set has a prior value <= 0.
C5_NoNonPositivePrior ==
    Computed => \A r \in DOMAIN df_yoy.rows : df_yoy.rows[r].year_ago_price > 0

\* C6: a region with a missing latest or year-ago cell is not in the result
\* (in create_price_levels: a missing latest cell), the run goes on without
\* an error, and every complete region is in the result exactly when its own
\* change (price) passes the filter, with the row its own cells give.
C6_MissingEndpoint ==
    (pc = "calculated") =>
        /\ ret = "running"
        /\ \A r \in Regions :
              IF script = "levels"
              THEN /\ LatestCell(r) = NaN => r \notin DOMAIN df_yoy.rows
                   /\ LatestCell(r) # NaN =>
                        /\ r \in DOMAIN df_yoy.rows
                             <=> (LatestCell(r).v >= MinPrice /\ LatestCell(r).v <= MaxPrice)
                        /\ r \in DOMAIN df_yoy.rows =>
                             df_yoy.rows[r].price_level = LatestCell(r).v
              ELSE /\ (LatestCell(r) = NaN \/ PriorCell(r) = NaN) =>
                        r \notin DOMAIN df_yoy.rows
                   /\ (LatestCell(r) # NaN /\ PriorCell(r) # NaN) =>
                        /\ r \in DOMAIN df_yoy.rows
                             <=> InBand(script, PercentChange(LatestCell(r).v, PriorCell(r).v))
                        /\ r \in DOMAIN df_yoy.rows =>
                             /\ df_yoy.rows[r].latest_price = LatestCell(r).v
                             /\ df_yoy.rows[r].year_ago_price = PriorCell(r).v

\* C6 witness: one region misses its year-ago cell and is left out, another
\* is complete and kept.
C6_Witness ==
    /\ Computed
    /\ \E r, q \in Regions :
          /\ PriorCell(r) = NaN /\ LatestCell(r) # NaN
          /\ r \notin DOMAIN df_yoy.rows
          /\ q \in DOMAIN df_yoy.rows


(***************************************************************************)
(*                    Properties of calculateQuintiles                     *)
(***************************************************************************)
Called == quintiles # <<>>

Count(vals, P(_)) == Cardinality({i \in 1..Len(vals) : P(vals[i])})

\* The value at zero-indexed position k of vals arranged in ascending order.
RankValue(vals, k) ==
    CHOOSE v \in {vals[i] : i \in 1..Len(vals)} :
        LET below(x) == x < v
            upto(x) == x <= v
        IN Count(vals, below) <= k /\ k < Count(vals, upto)

\* vals arranged in ascending order.
Ascending(vals) == [k \in 1..Len(vals) |-> RankValue(vals, k - 1)]

\* C7: for n >= 5 values the result is the four values at the zero-indexed
\* positions floor(0.2n), floor(0.4n), floor(0.6n), floor(0.8n) of the values
\* in ascending order, none of them interpolated; the ten-value example gives
\* [0, 10, 20, 30].
C7_RankBreakpoints ==
    (Called /\ Len(values) >= 5) =>
        /\ quintiles = [i \in 1..4 |->
                          R(RankValue(values, (2 * i * Len(values)) \div 10))]
        /\ values = ExampleRanked => quintiles = <<R(0), R(10), R(20), R(30)>>

\* C7 witness: the example in a shuffled order gave [0, 10, 20, 30].
C7_Witness ==
    /\ Called /\ values = ExampleShuffled
    /\ quintiles = <<R(0), R(10), R(20), R(30)>>

\* C10: the result depends only on the multiset of the values (it is the
\* result for their ascending arrangement, whatever order they came in), and
\* the call leaves the caller's array as it was.
C10_OrderIndependentPure ==
    /\ [](Called => quintiles = calculateQuintiles(Ascending(values)))
    /\ [][values' = values]_vars

\* C10 witness: a call returned on an array of five or more values that was
\* not in ascending order.
C10_Witness ==
    /\ Called /\ Len(values) >= 5
    /\ \E i, j \in 1..Len(values) : i < j /\ values[i] > values[j]
    /\ quintiles = calculateQuintiles(Ascending(values))


(***************************************************************************)
(*                        Properties of the page                           *)
(***************************************************************************)

\* The breakpoints were last written by a recomputation over a selection.
ByRecomputation ==
    recomputed.by \in {"updateLocalQuintiles", "updateBoundaryQuintiles"}

\* The price changes of that selection, and how many there are.
SelectedPrices == {recomputed.zips[i].p : i \in 1..Len(recomputed.zips)}
SelectedCount == Len(recomputed.zips)

\* The function alone, on every array of 2 to 4 values: breakpoint k is
\* min + 0.2 k (max - min).
SmallArrays == {v \in SeqsUpTo(QValues, SmallSampleSize - 1) : Len(v) >= MinSelection}

InterpolatedOnEverySmallArray ==
    \A v \in SmallArrays :
        LET lo == Min({v[i] : i \in 1..Len(v)})
            hi == Max({v[i] : i \in 1..Len(v)})
            q  == calculateQuintiles(v)
        IN \A k \in 1..4 :
              /\ q[k].k = "fin"
              /\ 10 * q[k].n = (10 * lo + 2 * k * (hi - lo)) * q[k].d

\* C8: a recomputation over 2, 3 or 4 regions sets the breakpoints to
\* min + 0.2 r, min + 0.4 r, min + 0.6 r, min + 0.8 r (r = max - min) and
\* hands the legend a true small-sample flag; the prices 0, 10, 50 give
\* [10, 20, 30, 40].  The flag is false for 5 or more regions and on the
\* fallback to the global breakpoints.
C8_SmallSample ==
    /\ (ByRecomputation /\ SelectedCount > 1 /\ SelectedCount < 5) =>
          LET min == Min(SelectedPrices)
              r == Max(SelectedPrices) - Min(SelectedPrices)
          IN /\ \A k \in 1..4 :
                   /\ currentQuintiles[k].k = "fin"
                   /\ 10 * currentQuintiles[k].n
                        = (10 * min + 2 * k * r) * currentQuintiles[k].d
             /\ legend.isSmallSample = TRUE
             /\ legend.quintiles = currentQuintiles
             /\ (SelectedCount = 3 /\ SelectedPrices = {0, 10, 50}) =>
                   currentQuintiles = <<R(10), R(20), R(30), R(40)>>
    /\ (ByRecomputation /\ SelectedCount >= 5) => legend.isSmallSample = FALSE
    /\ InterpolatedOnEverySmallArray
    /\ (ByRecomputation /\ SelectedCount <= 1) =>
          /\ legend.isSmallSample = FALSE
          /\ legend.quintiles = globalQuintiles

\* C8 witness: a boundary drawn around the regions with changes 0, 10 and 50
\* gave [10, 20, 30, 40] and a true flag.
C8_Witness ==
    /\ recomputed.by = "updateBoundaryQuintiles"
    /\ SelectedCount = 3 /\ SelectedPrices = {0, 10, 50}
    /\ currentQuintiles = <<R(10), R(20), R(30), R(40)>>
    /\ legend.isSmallSample = TRUE

\* C9: a recomputation in local mode, by the viewport path or the boundary
\* path, over no region or a single region leaves the current breakpoints
\* equal to the global breakpoints and the population range null.
C9_FallbackToGlobal ==
    (ByRecomputation /\ SelectedCount <= 1) =>
        /\ currentQuintiles = globalQuintiles
        /\ currentMinPop = Null
        /\ currentMaxPop = Null

\* C9 witness: the boundary path found a single region inside the drawn
\* polygon and fell back.
C9_Witness ==
    /\ isLocalMode
    /\ recomputed.by = "updateBoundaryQuintiles"
    /\ SelectedCount = 1
    /\ currentQuintiles = globalQuintiles /\ currentMinPop = Null

\* The regions inside the drawn boundary, and the breakpoints of a selection
\* (the global ones when it holds fewer than 2 regions).
BoundaryZips == getZipsInBoundary(drawnBoundary)
BreakpointsOf(zips) ==
    IF Len(zips) < 2 THEN globalQuintiles ELSE calculateQuintiles(Prices_(zips))

\* C11 as claimed: after every handler, in local mode with a drawn boundary,
\* the current breakpoints are those of the regions inside the boundary (the
\* global ones when fewer than 2 regions are inside), however the state was
\* reached.
C11_BoundarySelection ==
    (lastEvent # "load" /\ isLocalMode /\ drawnBoundary # NoShape) =>
        currentQuintiles = BreakpointsOf(BoundaryZips)

\* The regions whose centroid lies in the visible rectangle, its edges
\* included.
InViewport ==
    {i \in 1..NZips :
        /\ bounds.south <= zipData[i].lat /\ zipData[i].lat <= bounds.north
        /\ bounds.west <= zipData[i].lon /\ zipData[i].lon <= bounds.east}

\* The regions of the selection the last recomputation used.
Selected == {recomputed.zips[i].z : i \in 1..Len(recomputed.zips)}

\* The population range of a selection (null when it holds fewer than 2
\* regions).
MinPopOf(zips) == IF Len(zips) < 2 THEN Null ELSE Num(Min(Populations(zips)))
MaxPopOf(zips) == IF Len(zips) < 2 THEN Null ELSE Num(Max(Populations(zips)))

\* C12: when the debounce callback has run in local mode with no drawn
\* boundary, the selection is exactly the set of regions whose centroid lies
\* in the visible rectangle, each taken once, and the current breakpoints and
\* population range are those of that selection.
C12_ViewportSelection ==
    (lastEvent = "timeout" /\ isLocalMode /\ drawnBoundary = NoShape) =>
        /\ recomputed.by = "updateLocalQuintiles"
        /\ Selected = InViewport
        /\ Len(recomputed.zips) = Cardinality(InViewport)
        /\ currentQuintiles = BreakpointsOf(recomputed.zips)
        /\ currentMinPop = MinPopOf(recomputed.zips)
        /\ currentMaxPop = MaxPopOf(recomputed.zips)

\* C12 witness: the callback ran on a viewport that holds some regions but
\* not all, one of them on the rectangle's edge.
C12_Witness ==
    /\ lastEvent = "timeout" /\ isLocalMode /\ drawnBoundary = NoShape
    /\ Selected = InViewport
    /\ Cardinality(InViewport) \in 2..(NZips - 1)
    /\ \E i \in InViewport : zipData[i].lat = bounds.north
    /\ currentMinPop # Null

\* C13: a step that clears the drawn boundary while local mode is on (the
\* Clear Boundary button or the draw control's delete event) leaves local
\* mode on with no boundary and, in that same step, the breakpoints and the
\* population range recomputed over the regions in the current viewport.
C13_ClearRestoresViewport ==
    [][(isLocalMode /\ drawnBoundary # NoShape /\ drawnBoundary' = NoShape) =>
          /\ isLocalMode'
          /\ lastEvent' \in {"toggleDrawMode", "deleted"}
          /\ bounds' = bounds
          /\ recomputed'.by = "updateLocalQuintiles"
          /\ Selected' = InViewport'
          /\ currentQuintiles' = BreakpointsOf(recomputed'.zips)
          /\ currentMinPop' = MinPopOf(recomputed'.zips)
          /\ currentMaxPop' = MaxPopOf(recomputed'.zips)]_vars

\* C13 witness: the delete event cleared the boundary after the map had
\* moved and before the debounce callback ran, and the breakpoints are those
\* of the regions in the new viewport.
C13_Witness ==
    /\ lastEvent = "deleted" /\ isLocalMode /\ drawnBoundary = NoShape
    /\ updateTimeout > 0
    /\ recomputed.by = "updateLocalQuintiles"
    /\ Selected = InViewport
    /\ Cardinality(InViewport) \in 2..(NZips - 1)
    /\ currentQuintiles = BreakpointsOf(recomputed.zips)

(***************************************************************************)
(* The page with the timer's scheduling: a callback that is pending runs   *)
(* once the map has stopped moving (its 300 ms pass with no further        *)
(* event).                                                                 *)
(***************************************************************************)
\* The viewports whose south-west corner stays at the map's origin (zooming
\* in and out about one corner).
AnchoredViewports == {b \in Viewports : b.south = 0 /\ b.west = 0}

MoveEndAnchored ==
    \E b \in AnchoredViewports : Handle("moveend", onMoveEnd(St, b))

NextDebounce ==
    \/ ClickToggleView
    \/ ClickDrawBoundary
    \/ DrawCreated
    \/ DrawDeleted
    \/ MoveEndAnchored
    \/ Timeout

\* Weak fairness of the callback, WF_vars(Timeout), written out: a Timeout
\* step is possible exactly when a callback is pending, so either no
\* callback is pending infinitely often or Timeout steps happen infinitely
\* often.
TimerFires == []<>(updateTimeout = 0) \/ []<><<Timeout>>_vars

SpecDebounce == Init /\ [][NextDebounce]_vars /\ TimerFires

\* What a recomputation that reads the page as it is now would leave as the
\* current breakpoints.
BreakpointsNow ==
    IF ~isLocalMode THEN currentQuintiles
    ELSE IF drawnBoundary # NoShape THEN BreakpointsOf(BoundaryZips)
    ELSE BreakpointsOf(getVisibleZips(bounds))

\* C14: a burst of moveend/zoomend events (each arriving before the pending
\* callback is due) recomputes nothing itself and leaves exactly one callback
\* pending; that callback runs after the last event of the burst, it is the
\* only one, and the recomputation it makes reads the viewport, the
\* local-mode flag and the boundary as they are when it runs.
C14_Debounce ==
    /\ [](updateTimeout <= 1)
    /\ [](lastEvent = "moveend" => updateTimeout = 1)
    /\ [][lastEvent' = "moveend" =>
            /\ recomputed' = recomputed
            /\ currentQuintiles' = currentQuintiles
            /\ currentMinPop' = currentMinPop
            /\ currentMaxPop' = currentMaxPop
            /\ legend' = legend]_<<bounds, updateTimeout, lastEvent>>
    /\ [][lastEvent' = "timeout" =>
            /\ updateTimeout = 1 /\ updateTimeout' = 0
            /\ bounds' = bounds /\ isLocalMode' = isLocalMode
            /\ drawnBoundary' = drawnBoundary
            /\ currentQuintiles' = BreakpointsNow
            /\ isLocalMode =>
                 /\ recomputed'.by = (IF drawnBoundary # NoShape
                                      THEN "updateBoundaryQuintiles"
                                      ELSE "updateLocalQuintiles")
                 /\ drawnBoundary = NoShape => Selected' = InViewport]_<<updateTimeout, lastEvent>>
    /\ (updateTimeout > 0) ~> (lastEvent = "timeout" /\ updateTimeout = 0)

\* C14 witness: the callback has run after the map moved to a viewport other
\* than the one the breakpoints had been computed for, and the breakpoints
\* are those of the final viewport.
C14_Witness ==
    /\ lastEvent = "timeout" /\ updateTimeout = 0
    /\ isLocalMode /\ drawnBoundary = NoShape
    /\ Selected = InViewport
    /\ Cardinality(InViewport) \in 2..(NZips - 1)
    /\ currentQuintiles = BreakpointsOf(getVisibleZips(bounds))
    /\ currentQuintiles # globalQuintiles

(***************************************************************************)
(*                     Properties of isPointInPolygon                      *)
(***************************************************************************)
Evaluated == Len(returned) >= 1
TestRing == testPolygon.latlngs
NextCorner(r, i) == r[(i % Len(r)) + 1]

\* Twice the signed area of the triangle o, a, b.
Cross(o, a, b) ==
    (a.lat - o.lat) * (b.lng - o.lng) - (a.lng - o.lng) * (b.lat - o.lat)

Between(x, a, b) == (a <= x /\ x <= b) \/ (b <= x /\ x <= a)

\* p lies on the closed segment from a to b.
OnSegment(p, a, b) ==
    /\ Cross(a, b, p) = 0
    /\ Between(p.lat, a.lat, b.lat) /\ Between(p.lng, a.lng, b.lng)

\* The open segments a-b and c-d cross in one point interior to both.
ProperlyCross(a, b, c, d) ==
    /\ Cross(a, b, c) * Cross(a, b, d) < 0
    /\ Cross(c, d, a) * Cross(c, d, b) < 0

\* The closed segments a-b and c-d have a point in common.
Meet(a, b, c, d) ==
    \/ ProperlyCross(a, b, c, d)
    \/ OnSegment(a, c, d) \/ OnSegment(b, c, d)
    \/ OnSegment(c, a, b) \/ OnSegment(d, a, b)

\* Edges i and j of ring r (edge i runs from corner i to the next corner)
\* have a corner in common.
Adjacent(r, i, j) == j = (i % Len(r)) + 1 \/ i = (j % Len(r)) + 1

\* Ring r is a simple polygon: at least 3 corners, edges that are not
\* neighbours are disjoint, and neighbours have only their corner in common.
Simple(r) ==
    /\ Len(r) >= 3
    /\ \A i, j \in 1..Len(r) :
          i < j =>
             IF Adjacent(r, i, j)
             THEN LET first == IF j = (i % Len(r)) + 1 THEN i ELSE j
                      a == r[first]
                      b == NextCorner(r, first)
                      c == NextCorner(r, (first % Len(r)) + 1)
                  IN ~OnSegment(a, b, c) /\ ~OnSegment(c, a, b)
             ELSE ~Meet(r[i], NextCorner(r, i), r[j], NextCorner(r, j))

\* Ring r crosses itself: two of its edges cross in a point interior to both.
SelfIntersecting(r) ==
    \E i, j \in 1..Len(r) :
        i < j /\ ProperlyCross(r[i], NextCorner(r, i), r[j], NextCorner(r, j))

OnEdge(p, r) == \E i \in 1..Len(r) : OnSegment(p, r[i], NextCorner(r, i))

\* A ray from p that passes through no corner: none of the points used
\* differs from another by a multiple of this direction.
RayDirection == LatLng(101, 1)

\* The ray from p crosses the edge from a to b: a and b lie on opposite
\* sides of the ray's line, and the crossing lies ahead of p.
RayCrosses(p, a, b) ==
    LET d == RayDirection
        side(x) == d.lat * (x.lng - p.lng) - d.lng * (x.lat - p.lat)
        ahead == ((a.lat - p.lat) * (b.lng - a.lng) - (a.lng - p.lng) * (b.lat - a.lat))
                   * (d.lat * (b.lng - a.lng) - d.lng * (b.lat - a.lat))
    IN side(a) * side(b) < 0 /\ ahead > 0

CrossingCount(p, r) ==
    Cardinality({i \in 1..Len(r) : RayCrosses(p, r[i], NextCorner(r, i))})

\* C15: on a simple polygon and a point on none of its edges the function
\* returns true exactly when a ray from the point crosses an odd number of
\* edges; the square (0,0),(0,10),(10,10),(10,0) contains (5,5) and not
\* (15,15); and a second evaluation on the same input, a point on an edge or
\* a corner included, returns what the first returned.
C15_PointInPolygon ==
    /\ (Evaluated /\ Simple(TestRing) /\ ~OnEdge(testPoint, TestRing)) =>
          returned[1] = (CrossingCount(testPoint, TestRing) % 2 = 1)
    /\ (Evaluated /\ testPolygon = ExampleSquare) =>
          returned[1] = (testPoint = LatLng(5, 5))
    /\ Len(returned) = 2 => returned[2] = returned[1]

\* C15 witness: two evaluations found a point inside a simple four-corner
\* ring that is not convex.
C15_Witness ==
    /\ Len(returned) = 2 /\ returned[1] = TRUE /\ returned[2] = TRUE
    /\ Len(TestRing) = 4 /\ Simple(TestRing) /\ ~OnEdge(testPoint, TestRing)
    /\ \E i, j \in 1..4 :
          /\ Cross(TestRing[i], NextCorner(TestRing, i),
                   NextCorner(TestRing, (i % 4) + 1)) > 0
          /\ Cross(TestRing[j], NextCorner(TestRing, j),
                   NextCorner(TestRing, (j % 4) + 1)) < 0

\* C16 as claimed: on a ring of fewer than 3 corners or a ring that crosses
\* itself the membership test reports no containment, and the boundary
\* filter does not select the point (stated here for the points that lie on
\* no edge of the ring).
C16_DegenerateEmpty ==
    (/\ Evaluated
     /\ Len(TestRing) < 3 \/ SelfIntersecting(TestRing)
     /\ ~OnEdge(testPoint, TestRing)) =>
        /\ returned[1] = FALSE
        /\ ~InBoundary([lat |-> testPoint.lat, lon |-> testPoint.lng], testPolygon)

\* C17: after any sequence of events the drawn-items group holds at most one
\* shape, and it is the one drawnBoundary refers to (no shape exactly when
\* drawnBoundary is null); so a shape drawn while a boundary exists has taken
\* the place of the previous one.
C17_SingleBoundary ==
    /\ Cardinality(drawnItems) <= 1
    /\ drawnItems = (IF drawnBoundary = NoShape THEN {} ELSE {drawnBoundary})

\* C17 witness: a shape was drawn while a boundary existed, and the group
\* holds the new shape alone.
C17_Witness ==
    /\ lastEvent = "replaced"
    /\ drawnBoundary # NoShape
    /\ drawnItems = {drawnBoundary}

\* C18: after every handler the current breakpoints and population range
\* come from one selection: they are the global breakpoints with a null
\* range, or the breakpoints, the least and the greatest population of the
\* one selection of regions the last recomputation used.
C18_ConsistentSnapshot ==
    \/ /\ currentQuintiles = globalQuintiles
       /\ currentMinPop = Null
       /\ currentMaxPop = Null
    \/ /\ ByRecomputation
       /\ Len(recomputed.zips) >= 2
       /\ \A i \in 1..Len(recomputed.zips) :
             zipData[recomputed.zips[i].z] = recomputed.zips[i]
       /\ currentQuintiles = calculateQuintiles(Prices_(recomputed.zips))
       /\ currentMinPop = Num(Min(Populations(recomputed.zips)))
       /\ currentMaxPop = Num(Max(Populations(recomputed.zips)))

\* C18 witness: a boundary replaced another in local mode; breakpoints and
\* population range are those of the regions inside the new one, which are
\* not the regions in the viewport.
C18_Witness ==
    /\ lastEvent = "replaced" /\ recomputed.by = "updateBoundaryQuintiles"
    /\ Len(recomputed.zips) >= 2
    /\ Selected # InViewport
    /\ currentQuintiles = calculateQuintiles(Prices_(recomputed.zips))
    /\ currentMinPop = Num(Min(Populations(recomputed.zips)))
    /\ currentMaxPop = Num(Max(Populations(recomputed.zips)))

\* x <= y and x < y for two finite numbers.
RLe(x, y) == x.k = "fin" /\ y.k = "fin" /\ x.n * y.d <= y.n * x.d
RLt(x, y) == x.k = "fin" /\ y.k = "fin" /\ x.n * y.d < y.n * x.d

\* C19: on every non-empty array the four breakpoints are in non-decreasing
\* order and each lies between the least and the greatest value of the
\* array, on the rank path and on the interpolation path.
C19_OrderedBreakpoints ==
    (Called /\ Len(values) >= 1) =>
        LET lo == R(Min({values[i] : i \in 1..Len(values)}))
            hi == R(Max({values[i] : i \in 1..Len(values)}))
        IN /\ \A k \in 1..3 : RLe(quintiles[k], quintiles[k + 1])
           /\ \A k \in 1..4 : RLe(lo, quintiles[k]) /\ RLe(quintiles[k], hi)

\* C19 witness: four values that were not in ascending order gave four
\* strictly increasing interpolated breakpoints.
C19_Witness ==
    /\ Called /\ Len(values) = 4
    /\ \E i, j \in 1..4 : i < j /\ values[i] > values[j]
    /\ \A k \in 1..3 : RLt(quintiles[k], quintiles[k + 1])

\* C20 as claimed: in create_yoy_map and in create_sophisticated_map a
\* region with both prices present and a positive prior is in the result
\* exactly when its change is neither below -50 nor above +100, so a change
\* of exactly -50 or exactly +100 is kept (and the two scripts keep the same
\* regions of the same table).
C20_BandInclusive ==
    Computed =>
        \A r \in Regions :
            (LatestCell(r) # NaN /\ PriorCell(r) # NaN /\ PriorCell(r).v > 0) =>
                (r \in DOMAIN df_yoy.rows
                   <=> /\ (LatestCell(r).v - PriorCell(r).v) * 100 >= MinYoY * PriorCell(r).v
                       /\ (LatestCell(r).v - PriorCell(r).v) * 100 <= MaxYoY * PriorCell(r).v)

(***************************************************************************)
(*                 Properties of the batch scripts, continued              *)
(***************************************************************************)

\* C21: create_price_levels_map keeps a region exactly when its latest price
\* is present and 10000 <= price <= 10000000: every region of the result has
\* its own price, inside the band, and no region with a present price inside
\* the band is left out.
C21_PriceClamp ==
    (script = "levels" /\ pc = "calculated") =>
        /\ \A r \in Regions :
              r \in DOMAIN df_yoy.rows
                <=> /\ LatestCell(r) # NaN
                    /\ 10000 <= LatestCell(r).v /\ LatestCell(r).v <= 10000000
        /\ \A r \in DOMAIN df_yoy.rows :
              /\ df_yoy.rows[r].price_level = LatestCell(r).v
              /\ df_yoy.rows[r].price_level >= 10000
              /\ df_yoy.rows[r].price_level <= 10000000

\* C21 witness: one table holds a price at an end of the band, which is
\* kept, and a price one dollar outside it, which is dropped.
C21_Witness ==
    /\ script = "levels" /\ pc = "calculated"
    /\ \E r, q \in Regions :
          /\ LatestCell(r) \in {Cell(10000), Cell(10000000)}
          /\ r \in DOMAIN df_yoy.rows
          /\ LatestCell(q) \in {Cell(9999), Cell(10000001)}
          /\ q \notin DOMAIN df_yoy.rows


\* The run that just ended fetched the header and its last column is a date.
FetchSucceeded == upstream.kind = "ok" /\ strptime(upstream.last).ok
RunEnds == runs' = runs + 1
StoredDate == IF metadata.exists THEN metadata.last_date ELSE None

\* C22: a run whose fetch succeeds prints NEW_DATA=true and stores the
\* upstream latest date exactly when no date is stored or the stored text
\* differs from the upstream text; otherwise it prints NEW_DATA=false and
\* leaves the file as it was.  Either way the stored last_date is then the
\* upstream latest date, and a run that follows a successful one with the
\* same upstream prints NEW_DATA=false.
C22_UpdateCheck ==
    [][(RunEnds /\ FetchSucceeded') =>
         /\ check_exit' = 0
         /\ IF StoredDate = None \/ StoredDate # upstream'.last
            THEN /\ stdout' = <<"NEW_DATA=true">>
                 /\ metadata'.exists
                 /\ metadata'.last_date = upstream'.last
                 /\ metadata' # metadata
            ELSE /\ stdout' = <<"NEW_DATA=false">>
                 /\ metadata' = metadata
         /\ StoredDate' = upstream'.last
         /\ (FetchSucceeded /\ upstream' = upstream) => stdout' = <<"NEW_DATA=false">>
      ]_vars

\* A second successful run met the upstream of the first and left its file.
C22_Witness ==
    /\ runs = 2 /\ FetchSucceeded
    /\ stdout = <<"NEW_DATA=false">>
    /\ metadata.checked_at = 1 /\ metadata.last_date = upstream.last

\* C23: a run whose fetch fails (error status, connection error, no line,
\* last column not a date) exits with 1, prints no NEW_DATA line and leaves
\* the metadata file as it was.
C23_FetchFailure ==
    [][(RunEnds /\ ~FetchSucceeded') =>
         /\ check_exit' = 1
         /\ stdout' = <<>>
         /\ metadata' = metadata
      ]_vars

\* A run met a last column that is no date, after a run that stored one.
C23_Witness ==
    /\ runs = 2 /\ upstream.kind = "ok" /\ ~strptime(upstream.last).ok
    /\ check_exit = 1 /\ stdout = <<>>
    /\ metadata.checked_at = 1 /\ metadata.last_date # upstream.last


\* What the run can work with: the CSV exists and has a date column, and for
\* the year-over-year map the latest column is a date and some column is a
\* date of the year before it.
HasDateColumns == zillow_file /\ date_columns # <<>>
YearAgoResolvable ==
    LET latest == strptime(date_columns[Len(date_columns)]) IN
    /\ latest.ok
    /\ \E i \in 1..Len(date_columns) :
         strptime(date_columns[i]).ok /\ strptime(date_columns[i]).year = latest.year - 1
RunCanSucceed ==
    HasDateColumns /\ (script = "yoy" => YearAgoResolvable)

\* C24: the process exits with 0 if and only if the run wrote an output
\* file (the map, or the table when only the shapefile is missing); a run
\* without the CSV, without date columns or without a resolvable year-ago
\* column exits with 1 and writes nothing.
C24_ExitStatus ==
    /\ output_file # "none" => ret = "True"
    /\ pc = "exited" =>
         /\ exit_code = 0 <=> output_file # "none"
         /\ exit_code \in {0, 1}
         /\ ~RunCanSucceed => exit_code = 1 /\ output_file = "none"
         /\ RunCanSucceed =>
              exit_code = 0 /\ output_file = (IF shapefile THEN "map" ELSE "table")

\* A year-over-year run without the shapefile wrote the table and exited.
C24_Witness ==
    /\ pc = "exited" /\ script = "yoy" /\ ~shapefile
    /\ output_file = "table" /\ exit_code = 0


\* C27: whenever the resolver succeeds, the resolved column parses as a date
\* of the year before the latest column's; it is not the latest column, not
\* a column of the latest year and not a name that fails to parse.
C27_ResolvedInTargetYear ==
    (ResolverRan /\ year_ago_date # None) =>
        /\ strptime(year_ago_date).ok
        /\ strptime(year_ago_date).year = LatestT.year - 1
        /\ strptime(year_ago_date).year # LatestT.year
        /\ year_ago_date # latest_date
        /\ \E i \in 1..Len(date_columns) : date_columns[i] = year_ago_date

\* The resolver succeeded on a header that also holds a column of the latest
\* year, in the latest column's month, and a name that is no date.
C27_Witness ==
    /\ ResolverRan /\ year_ago_date # None
    /\ Len(date_columns) = MaxCols
    /\ \E i \in 1..(Len(date_columns) - 1) : ~strptime(date_columns[i]).ok
    /\ year_ago_date = date_columns[Len(date_columns) - 1]

(***************************************************************************)
(*                   Properties of the page, continued                     *)
(***************************************************************************)

\* C25: whenever local mode is off, currentQuintiles is the global
\* breakpoints and currentMinPop and currentMaxPop are null, whatever
\* toggles, pans, zooms, draws and clears came before; a moveend event and
\* the debounce callback in global view leave the mode, the breakpoints and
\* the population range as they were.
C25_GlobalView ==
    /\ [](~isLocalMode => /\ currentQuintiles = globalQuintiles
                          /\ currentMinPop = Null
                          /\ currentMaxPop = Null)
    /\ [][(~isLocalMode /\ lastEvent' \in {"moveend", "timeout"}) =>
            /\ ~isLocalMode'
            /\ currentQuintiles' = currentQuintiles
            /\ currentMinPop' = currentMinPop
            /\ currentMaxPop' = currentMaxPop
            /\ recomputed' = recomputed
         ]_vars

\* Back in global view with a drawn shape still on the map, the map was
\* moved to a viewport that holds fewer regions and the callback has run.
C25_Witness ==
    /\ ~isLocalMode /\ lastEvent = "timeout"
    /\ drawnItems # {}
    /\ recomputed.by = "toggleView"
    /\ bounds.south = bounds.north


\* C26 as claimed: the global breakpoints are what calculateQuintiles gives
\* on the prices of the whole of zipData, so a recomputation in local view
\* over a viewport that holds every region leaves the global breakpoints.
C26_GlobalMatchesEngine ==
    (isLocalMode /\ recomputed.by = "updateLocalQuintiles"
                 /\ Len(recomputed.zips) = NZips) =>
        /\ currentQuintiles = calculateQuintiles(Prices_(zipData))
        /\ currentQuintiles = globalQuintiles

\* C28: after every shape-created event local mode is on, drawing mode is
\* off and the shape the event added to the map is the active boundary (and
\* the only layer), whether local mode was on or off before the event.
C28_DrawForcesLocal ==
    [][lastEvent' \in {"created", "replaced"} =>
          /\ isLocalMode'
          /\ ~isDrawingMode'
          /\ drawnBoundary' \in Shapes
          /\ drawnItems' = {drawnBoundary'}
          /\ drawnBoundary # NoShape /\ drawnBoundary' # drawnBoundary
               => drawnBoundary \notin drawnItems'
      ]_vars

\* A first shape was completed in global view while drawing mode was on (the
\* handler went through toggleView), and it is the boundary.
C28_Witness ==
    /\ lastEvent = "created"
    /\ isLocalMode /\ ~isDrawingMode
    /\ drawnBoundary = TrianglePolygon /\ drawnItems = {TrianglePolygon}
    /\ recomputed.by = "updateLocalQuintiles"

\* C29: isDrawingMode is false whenever drawnBoundary is non-null; a click
\* on the draw button while a boundary exists removes the boundary and
\* leaves drawing mode off.
C29_DrawingExcludesBoundary ==
    /\ [](drawnBoundary # NoShape => ~isDrawingMode)
    /\ [][(drawnBoundary # NoShape /\ lastEvent' = "toggleDrawMode") =>
            /\ drawnBoundary' = NoShape
            /\ drawnBoundary \notin drawnItems'
            /\ ~isDrawingMode'
         ]_vars

\* The button was clicked in local view and the page has neither a boundary
\* nor drawing mode, with the breakpoints recomputed over the viewport the
\* map had moved to while the debounce callback is still pending.
C29_Witness ==
    /\ lastEvent = "toggleDrawMode"
    /\ drawnBoundary = NoShape /\ drawnItems = {} /\ ~isDrawingMode
    /\ isLocalMode /\ updateTimeout > 0
    /\ recomputed.by = "updateLocalQuintiles" /\ Selected = InViewport
    /\ bounds.south = bounds.north


\* C30: after any sequence of key events in the search box, clicks on the
\* Search button and clicks on suggestions, selectedSuggestionIndex is -1 or
\* an index of currentSuggestions (0 <= index < length), and Enter has never
\* read an entry past the end of the list.
C30_SuggestionIndexInRange ==
    /\ \/ selectedSuggestionIndex = -1
       \/ /\ 0 <= selectedSuggestionIndex
          /\ selectedSuggestionIndex < Len(currentSuggestions)
    /\ searchOutcome.did # "TypeError"

\* ArrowDown was pressed on a list of several suggestions, matched by name,
\* until the last entry was selected.
C30_Witness ==
    /\ Len(currentSuggestions) >= 2
    /\ selectedSuggestionIndex = Len(currentSuggestions) - 1
    /\ suggestionsActive
    /\ toLowerCase(trim(searchBox)) = <<"a", "a">>

=============================================================================
